---- MODULE Spec2Model ----
(***************************************************************************)
(* A model of pg_lupa (src/pg_lupa/lupa.py): the log_line_prefix format    *)
(* compiler, prefix resolution, and the ingestion pass that turns log      *)
(* records into statements, events and processes.                          *)
(*                                                                         *)
(* Text is modelled as a sequence of tokens.  A token is a record          *)
(* [k, v]: a single character c is [k |-> c, v |-> 0]; a maximal run of     *)
(* characters that the source reads as one field (a timestamp, a run of    *)
(* digits, a word) is one token whose v is the value the source decodes    *)
(* from it.  Format strings are sequences of one-character strings.        *)
(***************************************************************************)
EXTENDS Integers, Sequences, FiniteSets, TLC

VARIABLES
    \* make_prefix_parser, one format string being compiled
    log_prefix_format,            \* the letters consumed so far
    re_comp,                      \* regex components so far
    closers,                      \* pending group closers
    already_used_percent_codes,
    process_letter,               \* "consume" | "consume_percent_code"
    made,                         \* "building" | "ValueError" | "re.error" | "matcher"
    message,                      \* which error was raised, "" if none
    \* parse_log_prefix, one prefix being resolved
    options,                      \* the ParseOptions of the run
    prefix,                       \* the text before the marker
    matchers,                     \* the candidate matchers, in order
    matcher_no,                   \* position of the loop in matchers
    form,                         \* "raw" | "stripped": which form is tried next
    rv,                           \* the outcome once resolve_pc is not "loop"
    resolve_pc,                   \* "call" | "loop" | "returned" | "raised"
    \* parse_postgres_lines, one run
    prefix_matchers,
    lines,                        \* the records the loop has taken so far
    last,                         \* key, prefix and core of the latest record
    stmts_by_process,
    events,
    pids_by_first_seen,
    timestamp_minmax,
    model,                        \* the Model once pc = "returned"
    error,                        \* the exception once pc = "raised"
    pc,                           \* "start" | "loop" | "returned" | "raised"
    \* merge_continuation_lines, one pass
    unmerged_lines,               \* the records taken from the input so far
    last_line,                    \* the pending record, None before the first
    merged_lines,                 \* the records yielded so far
    merge_error,                  \* the exception once merge_pc = "raised"
    merge_pc,                     \* "loop" | "done" | "raised"
    \* one call of a decoding function
    call,                         \* [fn, arg]: the function and its argument
    result,                       \* what the call returned or raised
    call_pc                       \* "call" | "done"

compile_vars == <<log_prefix_format, re_comp, closers,
                  already_used_percent_codes, process_letter, made, message>>

resolve_vars == <<prefix, matchers, matcher_no, form, rv, resolve_pc>>

acc_vars == <<stmts_by_process, events, pids_by_first_seen, timestamp_minmax>>

ingest_vars == <<prefix_matchers, lines, last, acc_vars, model, error, pc>>

merge_vars == <<unmerged_lines, last_line, merged_lines, merge_error, merge_pc>>

call_vars == <<call, result, call_pc>>

extra_vars == <<merge_vars, call_vars>>

vars == <<compile_vars, options, resolve_vars, ingest_vars, extra_vars>>

----------------------------------------------------------------------------
(* Bounds *)

MaxFmtLen == 6      \* longest format string compiled
MaxLines == 2       \* most records in one run
MaxTime == 2        \* timestamps in prefixes are 1..MaxTime
MaxPid == 2         \* pids in prefixes are 1..MaxPid
MaxDuration == 1
MaxMergeLines == 4  \* most records given to merge_continuation_lines    \* durations are 0..MaxDuration

----------------------------------------------------------------------------
(* Characters *)

ascii_letters ==
    {"a","b","c","d","e","f","g","h","i","j","k","l","m",
     "n","o","p","q","r","s","t","u","v","w","x","y","z",
     "A","B","C","D","E","F","G","H","I","J","K","L","M",
     "N","O","P","Q","R","S","T","U","V","W","X","Y","Z"}

digits == {"0","1","2","3","4","5","6","7","8","9"}

hexdigits == digits \cup {"a","b","c","d","e","f","A","B","C","D","E","F"}

\* ord(ch) for the punctuation and control characters the model uses
ord(ch) ==
    CASE ch = "\t" -> 9
      [] ch = "\n" -> 10
      [] ch = " "  -> 32
      [] ch = "%"  -> 37
      [] ch = "("  -> 40
      [] ch = ")"  -> 41
      [] ch = "-"  -> 45
      [] ch = "<"  -> 60
      [] ch = ">"  -> 62
      [] ch = "@"  -> 64
      [] ch = "["  -> 91
      [] ch = "]"  -> 93
      [] ch = "_"  -> 95
      [] ch = "U+20AC" -> 8364     \* the euro sign

\* hex(n)[2:], the lowercase hexadecimal digits of n without padding
RECURSIVE hex(_)
hex(n) ==
    LET d == <<"0","1","2","3","4","5","6","7","8","9","a","b","c","d","e","f">>
    IN  IF n < 16 THEN <<d[n + 1]>> ELSE Append(hex(n \div 16), d[(n % 16) + 1])

----------------------------------------------------------------------------
(* _make_prefix_regex: regex components *)

Item(op, arg) == [op |-> op, arg |-> arg]

okay_regex_literals == ascii_letters \cup digits \cup {" "}

\* add_literal_char: the component appended for a literal character; an
\* escaped character is kept with the digits of hex(ord(ch))[1:]
add_literal_char(ch) ==
    IF ch \in okay_regex_literals
        THEN Item("char", <<ch>>)
        ELSE Item("hex", <<ch>> \o hex(ord(ch)))

percent_codes == {"t", "m", "p", "u", "d", "l", "a", "q", "%"}

\* the component appended by percent_codes[ch]()
callback(ch) ==
    CASE ch \in {"t", "m"} -> Item("group", <<"timestamp">>)
      [] ch = "p" -> Item("group", <<"pid">>)
      [] ch = "u" -> Item("group", <<"username">>)
      [] ch = "d" -> Item("group", <<"database">>)
      [] ch = "l" -> Item("group", <<"log_line_no">>)
      [] ch = "a" -> Item("group", <<"application_name">>)
      [] ch = "q" -> Item("open", <<>>)
      [] ch = "%" -> add_literal_char("%")

\* the builder state of one _make_prefix_regex call
Builder(rc, cl, used, pl, err) ==
    [re_comp |-> rc, closers |-> cl, used |-> used, process_letter |-> pl,
     error |-> err]

builder0 == Builder(<<Item("bol", <<>>)>>, <<>>, {}, "consume", "")

\* consume_percent_code without the check for a code used twice
consume_percent_code_no_twice(b, ch) ==
    IF ch \notin percent_codes
        THEN [b EXCEPT !.error = "unknown code"]
    ELSE [b EXCEPT !.re_comp = Append(@, callback(ch)),
                   !.closers = IF ch = "q" THEN Append(@, Item("close", <<>>))
                                           ELSE @,
                   !.process_letter = "consume",
                   !.used = @ \cup {ch}]

consume_percent_code(b, ch) ==
    IF ch \in b.used /\ ch # "%"
        THEN [b EXCEPT !.error = "used twice"]
    ELSE IF ch \notin percent_codes
        THEN [b EXCEPT !.error = "unknown code"]
    ELSE [b EXCEPT !.re_comp = Append(@, callback(ch)),
                   !.closers = IF ch = "q" THEN Append(@, Item("close", <<>>))
                                           ELSE @,
                   !.process_letter = "consume",
                   !.used = @ \cup {ch}]

consume(b, ch) ==
    IF ch = "%"
        THEN [b EXCEPT !.process_letter = "consume_percent_code"]
        ELSE [b EXCEPT !.re_comp = Append(@, add_literal_char(ch))]

Reverse(s) == [i \in 1..Len(s) |-> s[Len(s) + 1 - i]]

\* the end of _make_prefix_regex without the final "$"
finish_regex_without_eol(b) ==
    IF "p" \notin b.used
        THEN [error |-> "must contain %p", regex |-> <<>>]
    ELSE IF "t" \notin b.used /\ "m" \notin b.used
        THEN [error |-> "must contain %t or %m", regex |-> <<>>]
    ELSE [error |-> "", regex |-> b.re_comp \o Reverse(b.closers)]

\* the end of _make_prefix_regex, after the loop over the letters:
\* [error, regex]
finish_regex(b) ==
    IF "p" \notin b.used
        THEN [error |-> "must contain %p", regex |-> <<>>]
    ELSE IF "t" \notin b.used /\ "m" \notin b.used
        THEN [error |-> "must contain %t or %m", regex |-> <<>>]
    ELSE [error |-> "",
          regex |-> b.re_comp \o Reverse(b.closers) \o <<Item("eol", <<>>)>>]

step_letter(b, ch) ==
    IF b.process_letter = "consume" THEN consume(b, ch)
                                    ELSE consume_percent_code(b, ch)

RECURSIVE feed(_, _)
feed(b, fmt) ==
    IF b.error # "" \/ fmt = <<>> THEN b
    ELSE feed(step_letter(b, Head(fmt)), Tail(fmt))

\* _make_prefix_regex from the builder state reached at the end of the
\* format: [error, regex]
make_prefix_regex_from_builder(b) ==
    IF b.error # "" THEN [error |-> b.error, regex |-> <<>>]
                    ELSE finish_regex(b)

\* _make_prefix_regex(log_prefix_format)
make_prefix_regex(fmt) == make_prefix_regex_from_builder(feed(builder0, fmt))

----------------------------------------------------------------------------
(* re.compile of the components, and _make_prefix_parser_from_regex *)

hexval(d) ==
    CASE d = "0" -> 0 [] d = "1" -> 1 [] d = "2" -> 2 [] d = "3" -> 3
      [] d = "4" -> 4 [] d = "5" -> 5 [] d = "6" -> 6 [] d = "7" -> 7
      [] d = "8" -> 8 [] d = "9" -> 9
      [] d \in {"a", "A"} -> 10 [] d \in {"b", "B"} -> 11
      [] d \in {"c", "C"} -> 12 [] d \in {"d", "D"} -> 13
      [] d \in {"e", "E"} -> 14 [] d \in {"f", "F"} -> 15

known_punctuation == {"\t", "\n", " ", "%", "(", ")", "-", "<", ">", "@", "[", "]", "_"}

\* the character with code n: the inverse of ord where ord is tabulated,
\* otherwise a name for the character
chr(n) ==
    IF \E c \in known_punctuation : ord(c) = n
        THEN CHOOSE c \in known_punctuation : ord(c) = n
        ELSE "chr" \o ToString(n)

\* The regex source spells an escaped character as \x followed by the digits
\* of hex(ord(ch))[1:]; re reads exactly two hexadecimal digits after \x.
\* parse_escapes rewrites the components as re reads them; an "error"
\* component stands for re.error (incomplete escape).
bad_escape == <<Item("error", <<"incomplete escape">>)>>

RECURSIVE parse_escapes(_)
parse_escapes(items) ==
    IF items = <<>> THEN <<>>
    ELSE LET it == Head(items)
             rest == Tail(items)
         IN  IF it.op # "hex" THEN <<it>> \o parse_escapes(rest)
             ELSE LET ds == Tail(it.arg)
                  IN  IF Len(ds) >= 2
                      THEN <<Item("char", <<IF Len(ds) = 2 THEN it.arg[1]
                                            ELSE chr(16 * hexval(ds[1]) + hexval(ds[2]))>>)>>
                           \o [i \in 1..(Len(ds) - 2) |-> Item("char", <<ds[i + 2]>>)]
                           \o parse_escapes(rest)
                      ELSE IF rest # <<>> /\ Head(rest).op = "char"
                              /\ Head(rest).arg[1] \in hexdigits
                      THEN <<Item("char", <<chr(16 * hexval(ds[1])
                                               + hexval(Head(rest).arg[1]))>>)>>
                           \o parse_escapes(Tail(rest))
                      ELSE bad_escape

group_names(items) ==
    [i \in 1..Len(SelectSeq(items, LAMBDA it : it.op = "group"))
        |-> SelectSeq(items, LAMBDA it : it.op = "group")[i].arg[1]]

has_duplicates(names) ==
    \E i, j \in 1..Len(names) : i < j /\ names[i] = names[j]

\* re.compile, once the escapes are read: [error, prog]
compile_parsed(prog) ==
    IF \E i \in 1..Len(prog) : prog[i].op = "error"
        THEN [error |-> "incomplete escape", prog |-> <<>>]
    ELSE IF has_duplicates(group_names(prog))
        THEN [error |-> "redefinition of group name", prog |-> <<>>]
    ELSE [error |-> "", prog |-> prog]

\* re.compile(regex)
re_compile(regex) == compile_parsed(parse_escapes(regex))

handlers == {"timestamp", "pid", "log_line_no", "username", "database",
             "application_name"}

\* _make_prefix_parser_from_regex(regex): [raised, message, prog]; raised is
\* "" when the matcher `apply` over prog is returned
parser_from_compiled(c) ==
    IF c.error # ""
        THEN [raised |-> "re.error", message |-> c.error, prog |-> <<>>]
    ELSE IF \E i \in 1..Len(c.prog) :
                c.prog[i].op = "group" /\ c.prog[i].arg[1] \notin handlers
        THEN [raised |-> "ValueError", message |-> "unknown field", prog |-> <<>>]
    ELSE [raised |-> "", message |-> "", prog |-> c.prog]

make_prefix_parser_from_regex(regex) == parser_from_compiled(re_compile(regex))

\* _make_prefix_parser, and make_prefix_parser re-raising the ValueError of
\* _make_prefix_regex
parser_from_regex_result(r) ==
    IF r.error # ""
        THEN [raised |-> "ValueError", message |-> r.error, prog |-> <<>>]
        ELSE make_prefix_parser_from_regex(r.regex)

\* make_prefix_parser(log_line_prefix), from the builder state reached at
\* the end of the format
make_prefix_parser_from_builder(b) ==
    parser_from_regex_result(make_prefix_regex_from_builder(b))

make_prefix_parser(fmt) == make_prefix_parser_from_builder(feed(builder0, fmt))

----------------------------------------------------------------------------
(* Text tokens *)

Tok(k, v) == [k |-> k, v |-> v]
Ch(c) == Tok(c, 0)
Ts(t) == Tok("timestamp", t)     \* text matching the timestamp pattern, read as t
Digits(n) == Tok("digits", n)    \* a maximal run [0-9]+ with int() value n
Word(i) == Tok("word", i)        \* a run [A-Za-z_]+ that is not all digits
sp == Ch(" ")

whitespace == {" ", "\t", "\n", "\r", "\f"}

\* str.strip()
RECURSIVE lstrip(_)
lstrip(s) ==
    IF s # <<>> /\ Head(s).k \in whitespace THEN lstrip(Tail(s)) ELSE s

strip(s) == Reverse(lstrip(Reverse(lstrip(s))))

----------------------------------------------------------------------------
(* The matcher returned by _make_prefix_parser_from_regex *)

default_pid == 0
default_datetime == 0            \* datetime.datetime(1970, 1, 1)

\* whether one token can be part of the text a named group matches
in_group_class(name, tok) ==
    CASE name = "timestamp" -> tok.k = "timestamp"
      [] name \in {"pid", "log_line_no"} -> tok.k = "digits"
      [] name \in {"username", "database"} ->
            tok.k \in {"word", "digits", "-", "_"} \cup ascii_letters \cup digits
      [] name = "application_name" -> tok.k # "\n"
      [] OTHER -> FALSE

\* the longest run of tokens the group can take at the head of toks; a
\* timestamp or a digit run is a single token
RECURSIVE class_run(_, _)
class_run(name, toks) ==
    IF toks = <<>> \/ ~in_group_class(name, Head(toks)) THEN 0
    ELSE IF name \in {"timestamp", "pid", "log_line_no"} THEN 1
    ELSE 1 + class_run(name, Tail(toks))

no_captures == [name \in handlers |-> <<>>]

first_close(items) == CHOOSE j \in 1..Len(items) :
    items[j].op = "close" /\ \A i \in 1..(j - 1) : items[i].op # "close"

\* compiled_regex.match(s): <<>> when there is no match, else <<captures>>
\* for the first match in re's backtracking order (groups are greedy, the
\* optional section is tried present before absent)
or_else_match(first, second) == IF first # <<>> THEN first ELSE second

RECURSIVE re_match(_, _, _), re_match_group(_, _, _, _, _)
re_match(items, toks, caps) ==
    IF items = <<>> THEN <<caps>>
    ELSE LET it == Head(items)
             rest == Tail(items)
         IN  CASE it.op = "bol" -> re_match(rest, toks, caps)
               [] it.op = "eol" ->
                    IF toks = <<>> \/ toks = <<Ch("\n")>>
                        THEN re_match(rest, toks, caps) ELSE <<>>
               [] it.op = "char" ->
                    IF toks # <<>> /\ Head(toks) = Ch(it.arg[1])
                        THEN re_match(rest, Tail(toks), caps) ELSE <<>>
               [] it.op = "group" ->
                    re_match_group(it.arg[1], rest, toks, caps,
                                   class_run(it.arg[1], toks))
               [] it.op = "open" ->
                    LET j == first_close(rest)
                        inner == SubSeq(rest, 1, j - 1)
                        tail == SubSeq(rest, j + 1, Len(rest))
                    IN  or_else_match(re_match(inner \o tail, toks, caps),
                                      re_match(tail, toks, caps))
               [] OTHER -> <<>>

re_match_group(name, rest, toks, caps, n) ==
    IF n = 0 THEN <<>>
    ELSE or_else_match(re_match(rest, SubSeq(toks, n + 1, Len(toks)),
                                [caps EXCEPT ![name] = SubSeq(toks, 1, n)]),
                       re_match_group(name, rest, toks, caps, n - 1))

None == <<>>
Some(x) == <<x>>

LogPrefixInfo(t, pid, lno, u, d, a) ==
    [timestamp |-> t, pid |-> pid, log_line_no |-> lno, username |-> u,
     database |-> d, application_name |-> a]

Outcome(out, info) == [out |-> out, info |-> info]

no_info == LogPrefixInfo(default_datetime, default_pid, None, None, None, None)

\* the handlers of apply, run on the groups that captured something
run_handlers(c) ==
    LogPrefixInfo(
        IF c["timestamp"] # <<>> THEN c["timestamp"][1].v ELSE default_datetime,
        IF c["pid"] # <<>> THEN c["pid"][1].v ELSE default_pid,
        IF c["log_line_no"] # <<>> THEN Some(c["log_line_no"][1].v) ELSE None,
        IF c["username"] # <<>> THEN Some(c["username"]) ELSE None,
        IF c["database"] # <<>> THEN Some(c["database"]) ELSE None,
        IF c["application_name"] # <<>> THEN Some(c["application_name"]) ELSE None)

\* the checks of apply after the handlers
check_sentinels(return_value) ==
    IF return_value.timestamp = default_datetime \/ return_value.pid = default_pid
        THEN Outcome("RuntimeError", no_info)
        ELSE Outcome("info", return_value)

apply_match(m) ==
    IF m = <<>> THEN Outcome("None", no_info)
                ELSE check_sentinels(run_handlers(m[1]))

\* apply(s) of the matcher for prog: out is "None" (no match), "info" (the
\* LogPrefixInfo) or "RuntimeError" (a sentinel was left in place)
apply(prog, s) == apply_match(re_match(prog, s, no_captures))

----------------------------------------------------------------------------
(* parse_log_prefix *)

Fmt_old == <<"%","t"," ","[","%","p","-","%","l","]"," ","%","q","%","u","@","%","d">>
Fmt_app == Fmt_old \o <<" ","(","%","a",")">>
Fmt_new == <<"%","m"," ","[","%","p","]">>

DEFAULT_LOG_PREFIX_MATCHERS ==
    <<make_prefix_parser(Fmt_old).prog,
      make_prefix_parser(Fmt_app).prog,
      make_prefix_parser(Fmt_new).prog>>

\* `matchers or DEFAULT_LOG_PREFIX_MATCHERS` with every candidate appended
matchers_and_default(ms) == ms \o DEFAULT_LOG_PREFIX_MATCHERS

\* `matchers or DEFAULT_LOG_PREFIX_MATCHERS`
matchers_or_default(ms) ==
    IF ms = <<>> THEN DEFAULT_LOG_PREFIX_MATCHERS ELSE ms

\* `if rv: return rv`
or_else(first, second) == IF first.out # "None" THEN first ELSE second

\* the loop of parse_log_prefix from the k-th matcher on
RECURSIVE parse_log_prefix_from(_, _, _)
parse_log_prefix_from(pfx, ms, k) ==
    IF k > Len(ms) THEN Outcome("ValueError", no_info)
    ELSE or_else(apply(ms[k], pfx),
                 or_else(apply(ms[k], strip(pfx)),
                         parse_log_prefix_from(pfx, ms, k + 1)))

parse_log_prefix(pfx, ms) ==
    parse_log_prefix_from(pfx, matchers_or_default(ms), 1)

\* ParseOptions: an absent (or empty) option is <<>>
ParseOptions(fmt, regex) ==
    [log_line_prefix_format |-> fmt, log_line_prefix_regex |-> regex]

\* parse_postgres_lines, the construction of prefix_matchers: [raised, matchers]
collect_matchers(opts, f, r) ==
    IF opts.log_line_prefix_format # <<>> /\ f.raised # ""
        THEN [raised |-> f.raised, matchers |-> <<>>]
    ELSE IF opts.log_line_prefix_regex # <<>> /\ r.raised # ""
        THEN [raised |-> r.raised, matchers |-> <<>>]
    ELSE [raised |-> "",
          matchers |->
            (IF opts.log_line_prefix_format # <<>> THEN <<f.prog>> ELSE <<>>)
            \o (IF opts.log_line_prefix_regex # <<>> THEN <<r.prog>> ELSE <<>>)]

make_prefix_matchers(opts) ==
    collect_matchers(opts, make_prefix_parser(opts.log_line_prefix_format),
                     make_prefix_parser_from_regex(opts.log_line_prefix_regex))

----------------------------------------------------------------------------
(* Payload decoding *)

Dec3(n) == Tok("dec3", n)        \* the numeral [0-9]+[.][0-9]{3} written
                                 \* for n thousandths
ms_unit == Tok("ms", 0)
statement_label == Tok("statement:", 0)
wait_queue_sep == Tok(". Wait queue: ", 0)
Sql(i) == Tok("sql", i)          \* statement text number i

linebreaks == {"\n", "\r", "\f"}

index_of(toks, ks) ==
    IF \E i \in 1..Len(toks) : toks[i].k \in ks
        THEN CHOOSE i \in 1..Len(toks) :
                /\ toks[i].k \in ks
                /\ \A j \in 1..(i - 1) : toks[j].k \notin ks
        ELSE 0

Raised(exc) == [raised |-> exc, value |-> <<>>]
Returned(v) == [raised |-> "", value |-> v]

before(toks, i) == IF i = 0 THEN toks ELSE SubSeq(toks, 1, i - 1)
after(toks, i) == IF i = 0 THEN <<>> ELSE SubSeq(toks, i + 1, Len(toks))

\* get_first_line: full_entry.splitlines()[0]
get_first_line(full_entry) ==
    IF full_entry = <<>> THEN Raised("IndexError")
    ELSE Returned(before(full_entry, index_of(full_entry, linebreaks)))

DurationLogEntry(usec, stmt) == [duration_usec |-> usec, statement |-> stmt]

RECURSIVE leading_spaces(_)
leading_spaces(toks) ==
    IF toks # <<>> /\ Head(toks) = sp THEN 1 + leading_spaces(Tail(toks)) ELSE 0

digit_chars == <<"0", "1", "2", "3", "4", "5", "6", "7", "8", "9">>

\* the decimal digits of n
RECURSIVE decimal(_)
decimal(n) ==
    IF n < 10 THEN <<digit_chars[n + 1]>>
    ELSE Append(decimal(n \div 10), digit_chars[(n % 10) + 1])

\* the characters of the numeral a dec3 token stands for: the digits of the
\* whole part, a point, and three digits
numeral(tok) ==
    decimal(tok.v \div 1000)
        \o <<".", digit_chars[((tok.v \div 100) % 10) + 1],
              digit_chars[((tok.v \div 10) % 10) + 1],
              digit_chars[(tok.v % 10) + 1]>>

\* str.replace(".", "")
replace_point(chars) == SelectSeq(chars, LAMBDA c : c # ".")

\* the text before the point
before_point(chars) ==
    SubSeq(chars, 1, (CHOOSE i \in 1..Len(chars) : chars[i] = ".") - 1)

digit_value(c) == (CHOOSE i \in 1..10 : digit_chars[i] = c) - 1

\* int() of a string of decimal digits
RECURSIVE int_of_digits(_)
int_of_digits(chars) ==
    IF chars = <<>> THEN 0
    ELSE 10 * int_of_digits(SubSeq(chars, 1, Len(chars) - 1))
            + digit_value(chars[Len(chars)])

\* the duration read as whole milliseconds
duration_usec_whole_part(tok) == int_of_digits(before_point(numeral(tok)))

\* int(m.group(1).replace(".", ""))
duration_usec(tok) == int_of_digits(replace_point(numeral(tok)))

\* whether the line starts with ([0-9]+[.][0-9]{3}) ms
has_duration(ln) ==
    Len(ln) >= 3 /\ ln[1].k = "dec3" /\ ln[2] = sp /\ ln[3] = ms_unit

\* DURATION_LINE_RE, then DURATION_LINE_WITHOUT_STATEMENT_RE; rest is the
\* line after " ms" and n the number of spaces rest starts with
match_duration_line(ln, rest, n) ==
    IF has_duration(ln) /\ n >= 1 /\ Len(rest) > n /\ rest[n + 1] = statement_label
        THEN Returned(DurationLogEntry(duration_usec(ln[1]),
                        Some(SubSeq(rest, n + 2, Len(rest)))))
    ELSE IF has_duration(ln) /\ rest = <<>>
        THEN Returned(DurationLogEntry(duration_usec(ln[1]), None))
    ELSE Raised("RuntimeError")

parse_duration_line(ln) ==
    match_duration_line(ln, SubSeq(ln, 4, Len(ln)),
                        leading_spaces(SubSeq(ln, 4, Len(ln))))

parse_duration_first_line(fl) ==
    IF fl.raised # "" THEN fl ELSE parse_duration_line(strip(fl.value))

\* parse_duration_log_line
parse_duration_log_line(payload) ==
    parse_duration_first_line(get_first_line(payload))

\* str.strip(".")
RECURSIVE lstrip_dots(_)
lstrip_dots(s) ==
    IF s # <<>> /\ Head(s) = Ch(".") THEN lstrip_dots(Tail(s)) ELSE s

strip_dots(s) == Reverse(lstrip_dots(Reverse(lstrip_dots(s))))

\* str.split(",")
RECURSIVE split_commas(_)
split_commas(s) ==
    IF index_of(s, {","}) = 0 THEN <<s>>
    ELSE <<before(s, index_of(s, {","}))>>
            \o split_commas(after(s, index_of(s, {","})))

\* int(x) accepts a digit run with surrounding whitespace
is_int(x) == Len(strip(x)) = 1 /\ strip(x)[1].k = "digits"
int(x) == strip(x)[1].v

HoldingLockLogEntry(holder, queue) ==
    [holding_lock_pid |-> holder, wait_queue_pid |-> queue]

\* HoldingLockLogEntry(int(first_pid), tuple(int(x) for x in pieces))
holding_lock_entry(first_pid, pieces) ==
    IF ~is_int(first_pid) \/ \E j \in 1..Len(pieces) : ~is_int(pieces[j])
        THEN Raised("ValueError")
        ELSE Returned(HoldingLockLogEntry(int(first_pid),
                        [j \in 1..Len(pieces) |-> int(pieces[j])]))

\* the partition with every piece of split(",") kept
partition_holding_lock_keep_empty(ln, i) ==
    holding_lock_entry(before(ln, i), split_commas(after(ln, i)))

\* partition(". Wait queue: ") at position i, and split(",") without the
\* empty pieces
partition_holding_lock(ln, i) ==
    holding_lock_entry(before(ln, i),
        SelectSeq(split_commas(after(ln, i)), LAMBDA x : x # <<>>))

parse_holding_lock_line(ln) ==
    partition_holding_lock(ln, index_of(ln, {wait_queue_sep.k}))

parse_holding_lock_first_line(fl) ==
    IF fl.raised # "" THEN fl
    ELSE parse_holding_lock_line(strip_dots(strip(fl.value)))

\* parse_holding_lock_log_line
parse_holding_lock_log_line(payload) ==
    parse_holding_lock_first_line(get_first_line(payload))

\* create_statement; Statement.log_line_no is a required int, and duration
\* (seconds in the source) is kept in microseconds
Statement(t0, t1, context, duration, stmt) ==
    IF context.log_line_no = None THEN Raised("ValidationError")
    ELSE Returned([start_time |-> t0, end_time |-> t1, context |-> context,
                   duration |-> duration, pid |-> context.pid,
                   log_line_no |-> context.log_line_no[1], statement |-> stmt])

\* create_statement with start_time = end_time
create_statement_no_duration(context, entry) ==
    Statement(context.timestamp, context.timestamp, context,
              entry.duration_usec,
              IF entry.statement = None THEN <<>> ELSE entry.statement[1])

create_statement(context, entry) ==
    Statement(context.timestamp - entry.duration_usec, context.timestamp, context,
              entry.duration_usec,
              IF entry.statement = None THEN <<>> ELSE entry.statement[1])

----------------------------------------------------------------------------
(* parse_postgres_lines *)

LogLine(ts, toks) == [timestamp |-> ts, line |-> toks]

Event(context, event_type, description, primary, secondary) ==
    [time |-> context.timestamp, pid |-> context.pid, context |-> context,
     event_type |-> event_type, description |-> description,
     primary_related_pids |-> primary, secondary_related_pids |-> secondary]

\* the mutable locals of parse_postgres_lines; the dicts are kept as
\* sequences of entries in insertion order
Acc(sbp, ev, seen, mm) ==
    [stmts_by_process |-> sbp, events |-> ev, pids_by_first_seen |-> seen,
     timestamp_minmax |-> mm]

acc0 == Acc(<<>>, <<>>, <<>>, <<>>)

key_index(d, pid) ==
    IF \E i \in 1..Len(d) : d[i].pid = pid
        THEN CHOOSE i \in 1..Len(d) : d[i].pid = pid
        ELSE 0

\* saw_pid_at that adds an entry for every sighting
saw_pid_at_append(seen, pid, t) == Append(seen, [pid |-> pid, t |-> t])

\* saw_pid_at that keeps the latest sighting
saw_pid_at_latest(seen, pid, t) ==
    IF key_index(seen, pid) = 0 THEN Append(seen, [pid |-> pid, t |-> t])
    ELSE IF seen[key_index(seen, pid)].t < t
        THEN [seen EXCEPT ![key_index(seen, pid)].t = t]
    ELSE seen

saw_pid_at(seen, pid, t) ==
    IF key_index(seen, pid) = 0 THEN Append(seen, [pid |-> pid, t |-> t])
    ELSE IF seen[key_index(seen, pid)].t > t
        THEN [seen EXCEPT ![key_index(seen, pid)].t = t]
    ELSE seen

RECURSIVE saw_pids_at(_, _, _)
saw_pids_at(seen, pids, t) ==
    IF pids = <<>> THEN seen
    ELSE saw_pids_at(saw_pid_at(seen, Head(pids), t), Tail(pids), t)

\* stmts_by_process[pid].append(stmt)
append_stmt(sbp, stmt) ==
    IF key_index(sbp, stmt.pid) = 0
        THEN Append(sbp, [pid |-> stmt.pid, stmts |-> <<stmt>>])
        ELSE [sbp EXCEPT ![key_index(sbp, stmt.pid)].stmts = Append(@, stmt)]

\* handle_duration once the statement is created
record_statement(acc, stmt) ==
    IF stmt.raised # "" THEN Raised(stmt.raised)
    ELSE Returned([acc EXCEPT
            !.pids_by_first_seen =
                saw_pid_at(@, stmt.value.pid, stmt.value.start_time),
            !.stmts_by_process = append_stmt(@, stmt.value)])

\* handle_duration once the payload is parsed
handle_parsed_duration(acc, context, parsed) ==
    IF parsed.raised # "" THEN Raised(parsed.raised)
    ELSE record_statement(acc, create_statement(context, parsed.value))

handle_duration(acc, context, core) ==
    handle_parsed_duration(acc, context, parse_duration_log_line(core))

handle_automatic_analyze(acc, context, core) ==
    Returned([acc EXCEPT !.events =
        Append(@, Event(context, "analyze", Some(strip(core)), <<>>, <<>>))])

handle_automatic_vacuum(acc, context, core) ==
    Returned([acc EXCEPT !.events =
        Append(@, Event(context, "vacuum", Some(strip(core)), <<>>, <<>>))])

\* a handler that adds no event
handle_nothing(acc, context, core) == Returned(acc)

handle_disconnection(acc, context, core) ==
    Returned([acc EXCEPT !.events =
        Append(@, Event(context, "disconnect", None, <<>>, <<>>))])

handle_connection_authorized(acc, context, core) ==
    Returned([acc EXCEPT !.events =
        Append(@, Event(context, "connection authorized", None, <<>>, <<>>))])

\* the wait queue with the record's own pid left in
wait_queue_with_self(entry, context) == entry.wait_queue_pid

wait_queue_except_self(entry, context) ==
    SelectSeq(entry.wait_queue_pid, LAMBDA x : x # context.pid)

\* handle_process_holding_lock once the payload is parsed
handle_parsed_holding_lock(acc, context, entry) ==
    IF entry.raised # "" THEN Raised(entry.raised)
    ELSE Returned([acc EXCEPT
            !.pids_by_first_seen =
                saw_pids_at(saw_pid_at(@, entry.value.holding_lock_pid,
                                       context.timestamp),
                            entry.value.wait_queue_pid, context.timestamp),
            !.events = Append(@, Event(context, "waiting for lock", None,
                                       <<entry.value.holding_lock_pid>>,
                                       wait_queue_except_self(entry.value, context)))])

handle_process_holding_lock(acc, context, core) ==
    handle_parsed_holding_lock(acc, context, parse_holding_lock_log_line(core))

handle_deadlock_detected(acc, context, core) ==
    Returned([acc EXCEPT !.events =
        Append(@, Event(context, "deadlock", None, <<>>, <<>>))])

M_duration == "LOG:  duration: "
M_disconnection == "LOG:  disconnection: "
M_authorized == "LOG:  connection authorized: "
M_holding_lock == "DETAIL:  Process holding the lock: "
M_deadlock == "ERROR:  deadlock detected"
M_analyze == "LOG:  automatic analyze of "
M_vacuum == "LOG:  automatic vacuum of "

\* the keys of dispatch, in insertion order
dispatch ==
    <<M_duration, M_disconnection, M_authorized, M_holding_lock, M_deadlock,
      M_analyze, M_vacuum>>

\* dispatch[key](context, core)
func(key, acc, context, core) ==
    CASE key = M_duration -> handle_duration(acc, context, core)
      [] key = M_disconnection -> handle_disconnection(acc, context, core)
      [] key = M_authorized -> handle_connection_authorized(acc, context, core)
      [] key = M_holding_lock -> handle_process_holding_lock(acc, context, core)
      [] key = M_deadlock -> handle_deadlock_detected(acc, context, core)
      [] key = M_analyze -> handle_automatic_analyze(acc, context, core)
      [] key = M_vacuum -> handle_automatic_vacuum(acc, context, core)

contains(text, key) == \E i \in 1..Len(text) : text[i].k = key

\* the marker that occurs earliest in the text
earliest_key(text) ==
    IF \E i \in 1..Len(dispatch) : contains(text, dispatch[i])
        THEN text[index_of(text, {dispatch[i] : i \in 1..Len(dispatch)})].k
        ELSE ""

\* the first key of dispatch, in table order, that occurs in the text;
\* "" when none does
first_key(text) ==
    IF \E i \in 1..Len(dispatch) : contains(text, dispatch[i])
        THEN dispatch[CHOOSE i \in 1..Len(dispatch) :
                        /\ contains(text, dispatch[i])
                        /\ \A j \in 1..(i - 1) : ~contains(text, dispatch[j])]
        ELSE ""

\* the span that only ever moves its lower end
update_minmax_min_only(mm, t) ==
    IF mm = <<>> THEN <<t, t>>
    ELSE <<IF mm[1] < t THEN mm[1] ELSE t, mm[2]>>

\* the update of timestamp_minmax in try_parse
update_minmax(mm, t) ==
    IF mm = <<>> THEN <<t, t>>
    ELSE <<IF mm[1] < t THEN mm[1] ELSE t, IF mm[2] > t THEN mm[2] ELSE t>>

\* what one call of try_parse did: [raised, key, prefix, core, acc]; key is
\* "" when the record has no marker
Parsed(exc, key, pfx, core, acc) ==
    [raised |-> exc, key |-> key, prefix |-> pfx, core |-> core, acc |-> acc]

\* try_parse after func(context, core)
after_func(key, pfx, core, acc, handled) ==
    IF handled.raised # "" THEN Parsed(handled.raised, key, pfx, core, acc)
    ELSE Parsed("", key, pfx, core, handled.value)

\* try_parse from the update of timestamp_minmax on
with_context(acc, key, pfx, core, context) ==
    after_func(key, pfx, core, acc,
        func(key,
             [acc EXCEPT
                !.timestamp_minmax = update_minmax(@, context.timestamp),
                !.pids_by_first_seen =
                    saw_pid_at(@, context.pid, context.timestamp)],
             context, core))

\* try_parse after parse_log_prefix: the record's own timestamp replaces
\* the one of the prefix
with_prefix(acc, ln, key, pfx, core, parsed) ==
    IF parsed.out # "info" THEN Parsed(parsed.out, key, pfx, core, acc)
    ELSE with_context(acc, key, pfx, core,
            IF ln.timestamp # None
                THEN [parsed.info EXCEPT !.timestamp = ln.timestamp[1]]
                ELSE parsed.info)

\* line.line.partition(key), with key first at position i
partitioned(acc, ln, ms, key, i) ==
    with_prefix(acc, ln, key, SubSeq(ln.line, 1, i - 1),
                SubSeq(ln.line, i + 1, Len(ln.line)),
                parse_log_prefix(SubSeq(ln.line, 1, i - 1), ms))

with_key(acc, ln, ms, key) ==
    IF key = "" THEN Parsed("", "", <<>>, <<>>, acc)
    ELSE partitioned(acc, ln, ms, key, index_of(ln.line, {key}))

\* try_parse(line)
try_parse(acc, ln, ms) == with_key(acc, ln, ms, first_key(ln.line))

\* the RuntimeError raised for line number i (0-based) of enumerate(lines),
\* numbered from 0
line_error_zero_based(i, line, cause) ==
    [type |-> "RuntimeError", index |-> i, text |-> line.line, cause |-> cause]

\* RuntimeError(f"Failed to parse log line #{i+1}: {repr(line.line)}") from e
line_error(i, line, cause) ==
    [type |-> "RuntimeError", index |-> i + 1, text |-> line.line, cause |-> cause]

no_last == [key |-> "", prefix |-> <<>>, core |-> <<>>]

no_error == [type |-> "", index |-> 0, text |-> <<>>, cause |-> ""]

Process(pid, t) == [pid |-> pid, first_appearance |-> t]

RECURSIVE flatten(_)
flatten(sbp) ==
    IF sbp = <<>> THEN <<>> ELSE Head(sbp).stmts \o flatten(Tail(sbp))

Model(processes, statements, evs, t0, t1) ==
    [processes |-> processes, statements |-> statements, events |-> evs,
     start_time |-> t0, end_time |-> t1]

no_model == Model(<<>>, <<>>, <<>>, 0, 0)

\* the end of parse_postgres_lines, after the loop
build_model(acc) ==
    IF acc.timestamp_minmax = <<>> THEN Raised("IndexError")
    ELSE Returned(Model(
            [i \in 1..Len(acc.pids_by_first_seen) |->
                Process(acc.pids_by_first_seen[i].pid, acc.pids_by_first_seen[i].t)],
            flatten(acc.stmts_by_process),
            acc.events,
            acc.timestamp_minmax[1],
            acc.timestamp_minmax[2]))

----------------------------------------------------------------------------
(* Compiling one format string, letter by letter *)

FormatAlphabet == {"%", "t", "m", "p", "q", "[", "\t"}

CurrentBuilder ==
    Builder(re_comp, closers, already_used_percent_codes, process_letter, "")

SetBuilder(b) ==
    /\ re_comp' = b.re_comp
    /\ closers' = b.closers
    /\ already_used_percent_codes' = b.used
    /\ process_letter' = b.process_letter
    /\ made' = IF b.error # "" THEN "ValueError" ELSE "building"
    /\ message' = b.error

IdleCompile ==
    /\ log_prefix_format = <<>>
    /\ re_comp = <<>>
    /\ closers = <<>>
    /\ already_used_percent_codes = {}
    /\ process_letter = "consume"
    /\ made = "idle"
    /\ message = ""

IdleResolve ==
    /\ prefix = <<>>
    /\ matchers = <<>>
    /\ matcher_no = 0
    /\ form = "raw"
    /\ rv = Outcome("None", no_info)
    /\ resolve_pc = "idle"

IdleIngest ==
    /\ prefix_matchers = <<>>
    /\ lines = <<>>
    /\ last = no_last
    /\ stmts_by_process = <<>>
    /\ events = <<>>
    /\ pids_by_first_seen = <<>>
    /\ timestamp_minmax = <<>>
    /\ model = no_model
    /\ error = no_error
    /\ pc = "idle"

IdleMerge ==
    /\ unmerged_lines = <<>>
    /\ last_line = <<>>
    /\ merged_lines = <<>>
    /\ merge_error = no_error
    /\ merge_pc = "idle"

IdleCalls ==
    /\ call = [fn |-> "", arg |-> <<>>]
    /\ result = [raised |-> "", value |-> <<>>]
    /\ call_pc = "idle"

InitCompile ==
    /\ options = ParseOptions(<<>>, <<>>)
    /\ IdleResolve
    /\ IdleIngest
    /\ IdleMerge
    /\ IdleCalls
    /\ log_prefix_format = <<>>
    /\ re_comp = builder0.re_comp
    /\ closers = builder0.closers
    /\ already_used_percent_codes = builder0.used
    /\ process_letter = builder0.process_letter
    /\ made = "building"
    /\ message = ""

\* the loop of _make_prefix_regex hands the next letter to consume
Consume ==
    /\ made = "building"
    /\ process_letter = "consume"
    /\ Len(log_prefix_format) < MaxFmtLen
    /\ \E ch \in FormatAlphabet :
        /\ log_prefix_format' = Append(log_prefix_format, ch)
        /\ SetBuilder(consume(CurrentBuilder, ch))
    /\ UNCHANGED <<extra_vars, options, resolve_vars, ingest_vars>>

\* the loop hands the next letter to consume_percent_code
ConsumePercentCode ==
    /\ made = "building"
    /\ process_letter = "consume_percent_code"
    /\ Len(log_prefix_format) < MaxFmtLen
    /\ \E ch \in FormatAlphabet :
        /\ log_prefix_format' = Append(log_prefix_format, ch)
        /\ SetBuilder(consume_percent_code(CurrentBuilder, ch))
    /\ UNCHANGED <<extra_vars, options, resolve_vars, ingest_vars>>

\* the format is exhausted: the checks after the loop, re.compile, and the
\* construction of the matcher
SetMade(r) ==
    /\ made' = IF r.raised = "" THEN "matcher" ELSE r.raised
    /\ message' = r.message
    /\ re_comp' = IF r.raised = "" THEN r.prog ELSE re_comp

MakePrefixParser ==
    /\ made = "building"
    /\ SetMade(make_prefix_parser_from_builder(CurrentBuilder))
    /\ UNCHANGED <<log_prefix_format, closers, already_used_percent_codes,
                   process_letter, options, resolve_vars, ingest_vars,
                   extra_vars>>

NextCompile == Consume \/ ConsumePercentCode \/ MakePrefixParser

SpecCompile == InitCompile /\ [][NextCompile]_vars

----------------------------------------------------------------------------
(* Resolving one prefix, attempt by attempt *)

Fmt_custom == <<"%","p"," ","%","t"," ","%","l">>
Fmt_custom_app == <<"%","p"," ","%","t"," ","%","a">>

\* a hand-written pattern ^(?P<pid>[0-9]+) (?P<timestamp>...) with no $
Regex_custom ==
    <<Item("bol", <<>>), Item("group", <<"pid">>), Item("char", <<" ">>),
      Item("group", <<"timestamp">>)>>

OptionChoices ==
    {ParseOptions(f, r) : f \in {<<>>, Fmt_custom, Fmt_custom_app},
                          r \in {<<>>, Regex_custom}}

prefix_truncated(t, p, l) ==
    <<Ts(t), sp, Ch("["), Digits(p), Ch("-"), Digits(l), Ch("]"), sp>>
prefix_old(t, p, l) ==
    prefix_truncated(t, p, l) \o <<Word(1), Ch("@"), Word(2), sp>>
prefix_app(t, p, l) ==
    prefix_truncated(t, p, l)
        \o <<Word(1), Ch("@"), Word(2), sp, Ch("("), Word(3), Ch(")"), sp>>
prefix_new(t, p) == <<Ts(t), sp, Ch("["), Digits(p), Ch("]"), sp>>
prefix_custom(t, p, l) == <<Digits(p), sp, Ts(t), sp, Digits(l)>>
prefix_custom_app(t, p) == <<Digits(p), sp, Ts(t), sp, Word(3), sp>>
prefix_garbage == <<Word(4), sp>>

PrefixChoices ==
    {prefix_truncated(1, 1, 1), prefix_old(1, 1, 1), prefix_app(1, 1, 1),
     prefix_new(1, 1), prefix_custom(1, 1, 1), <<sp>> \o prefix_custom(1, 2, 1),
     prefix_custom_app(1, 1), prefix_garbage,
     prefix_truncated(1, 1, 1) \o <<Word(1)>>, <<>>}

InitResolve ==
    /\ IdleCompile
    /\ IdleIngest
    /\ IdleMerge
    /\ IdleCalls
    /\ options \in OptionChoices
    /\ prefix \in PrefixChoices
    /\ matchers = <<>>
    /\ matcher_no = 0
    /\ form = "raw"
    /\ rv = Outcome("None", no_info)
    /\ resolve_pc = "call"

\* parse_postgres_lines builds prefix_matchers; parse_log_prefix falls back
\* to the built-in matchers when the list is empty
EnterParseLogPrefix ==
    /\ resolve_pc = "call"
    /\ matchers' = matchers_or_default(make_prefix_matchers(options).matchers)
    /\ matcher_no' = 1
    /\ resolve_pc' = "loop"
    /\ UNCHANGED <<extra_vars, compile_vars, options, prefix, form, rv, ingest_vars>>

Finish(outcome) ==
    /\ rv' = outcome
    /\ resolve_pc' = IF outcome.out = "info" THEN "returned" ELSE "raised"
    /\ UNCHANGED <<matcher_no, form>>

\* `if rv: return rv`, else the loop goes on with the next attempt
FinishOr(r, next_form, next_no) ==
    IF r.out # "None" THEN Finish(r)
    ELSE /\ form' = next_form
         /\ matcher_no' = next_no
         /\ UNCHANGED <<rv, resolve_pc>>

\* rv = matcher(prefix)
MatchRaw ==
    /\ resolve_pc = "loop"
    /\ matcher_no <= Len(matchers)
    /\ form = "raw"
    /\ FinishOr(apply(matchers[matcher_no], prefix), "stripped", matcher_no)
    /\ UNCHANGED <<extra_vars, compile_vars, options, prefix, matchers, ingest_vars>>

\* rv = matcher(prefix.strip())
MatchStripped ==
    /\ resolve_pc = "loop"
    /\ matcher_no <= Len(matchers)
    /\ form = "stripped"
    /\ FinishOr(apply(matchers[matcher_no], strip(prefix)), "raw", matcher_no + 1)
    /\ UNCHANGED <<extra_vars, compile_vars, options, prefix, matchers, ingest_vars>>

\* the loop ends without a result: ValueError
NotMatched ==
    /\ resolve_pc = "loop"
    /\ matcher_no > Len(matchers)
    /\ Finish(Outcome("ValueError", no_info))
    /\ UNCHANGED <<extra_vars, compile_vars, options, prefix, matchers, ingest_vars>>

NextResolve == EnterParseLogPrefix \/ MatchRaw \/ MatchStripped \/ NotMatched

SpecResolve == InitResolve /\ [][NextResolve]_vars

\* the attempt-by-attempt loop computes parse_log_prefix
ResolveAgrees ==
    resolve_pc \in {"returned", "raised"} =>
        rv = parse_log_prefix(prefix, make_prefix_matchers(options).matchers)

----------------------------------------------------------------------------
(* One run of parse_postgres_lines, record by record *)

Times == 1..MaxTime
Pids == 1..MaxPid
Durations == 0..MaxDuration

Mark(key) == Tok(key, 0)

continuation == <<Ch("\n"), Ch("\t"), Word(5)>>

DurationLines ==
    {LogLine(None, prefix_truncated(t, p, 1)
                     \o <<Mark(M_duration), Dec3(d), sp, ms_unit>>) :
        t \in Times, p \in Pids, d \in Durations}
    \cup {LogLine(None, prefix_old(1, 1, 1)
                     \o <<Mark(M_duration), Dec3(MaxDuration), sp, ms_unit, sp, sp,
                          statement_label, sp, Sql(1)>> \o continuation)}

LockLines ==
    {LogLine(None, prefix_old(t, p, 1)
                     \o <<Mark(M_holding_lock), Digits(MaxPid + 1), wait_queue_sep,
                          Digits(p), Ch(","), sp, Digits(MaxPid + 2), Ch(".")>>) :
        t \in Times, p \in Pids}
    \cup {LogLine(None, prefix_old(1, 1, 1)
                     \o <<Mark(M_holding_lock), Digits(2), wait_queue_sep, Ch(".")>>),
          LogLine(None, prefix_old(1, 1, 1)
                     \o <<Mark(M_holding_lock), Digits(2), wait_queue_sep,
                          Digits(1), Ch(","), sp, Digits(MaxPid + 1), Ch(","), sp,
                          Digits(1), Ch(".")>>)}

EventLines ==
    {LogLine(None, prefix_old(t, p, 1) \o <<Mark(M_disconnection), Word(6)>>) :
        t \in Times, p \in Pids}
    \cup {LogLine(None, prefix_old(MaxTime, 1, 1) \o <<Mark(M_authorized), Word(6)>>),
          LogLine(None, prefix_new(1, 2) \o <<Mark(M_deadlock)>>),
          LogLine(None, prefix_truncated(1, 1, 1)
                          \o <<Mark(M_analyze), Word(7)>> \o continuation),
          LogLine(None, prefix_truncated(MaxTime, 2, 1)
                          \o <<Mark(M_vacuum), Word(7), sp>>),
          LogLine(Some(MaxTime + 1), prefix_truncated(1, 1, 1)
                          \o <<Mark(M_disconnection), Word(6)>>),
          LogLine(None, prefix_custom(1, 1, 1) \o <<sp, Mark(M_deadlock)>>)}

\* records in which two markers occur
TwoMarkerLines ==
    {LogLine(None, prefix_truncated(1, 1, 1)
                     \o <<Word(1), Ch("@"), Word(2), sp, Ch("("), Mark(M_vacuum),
                          Ch(")"), sp, Mark(M_disconnection), Word(6)>>),
     LogLine(None, prefix_truncated(1, 1, 1)
                     \o <<Mark(M_vacuum), Word(7), sp, Mark(M_duration),
                          Dec3(1), sp, ms_unit>>),
     LogLine(None, prefix_truncated(1, 2, 1)
                     \o <<Mark(M_duration), Dec3(0), sp, ms_unit, sp,
                          statement_label, sp, Mark(M_deadlock)>>)}

NoMarkerLines == {LogLine(None, <<Word(8)>>)}

\* records whose processing raises
BadLines ==
    {LogLine(None, prefix_garbage \o <<Mark(M_disconnection), Word(6)>>),
     LogLine(None, prefix_truncated(1, 1, 1) \o <<Mark(M_duration), Word(9)>>),
     LogLine(None, prefix_truncated(1, 1, 1) \o <<Mark(M_duration)>>),
     LogLine(None, prefix_old(1, 1, 1) \o <<Mark(M_holding_lock), Word(9)>>),
     LogLine(None, prefix_new(1, 1) \o <<Mark(M_duration), Dec3(1), sp, ms_unit>>)}

LogLines ==
    DurationLines \cup LockLines \cup EventLines \cup TwoMarkerLines
        \cup NoMarkerLines \cup BadLines

IngestOptionChoices == {ParseOptions(<<>>, <<>>), ParseOptions(Fmt_custom, <<>>)}

CurrentAcc ==
    Acc(stmts_by_process, events, pids_by_first_seen, timestamp_minmax)

SetAcc(acc) ==
    /\ stmts_by_process' = acc.stmts_by_process
    /\ events' = acc.events
    /\ pids_by_first_seen' = acc.pids_by_first_seen
    /\ timestamp_minmax' = acc.timestamp_minmax

Init ==
    /\ IdleCompile
    /\ IdleResolve
    /\ IdleMerge
    /\ IdleCalls
    /\ options \in IngestOptionChoices
    /\ prefix_matchers = <<>>
    /\ lines = <<>>
    /\ last = no_last
    /\ stmts_by_process = <<>>
    /\ events = <<>>
    /\ pids_by_first_seen = <<>>
    /\ timestamp_minmax = <<>>
    /\ model = no_model
    /\ error = no_error
    /\ pc = "start"

SetPrefixMatchers(r) ==
    IF r.raised # ""
        THEN /\ pc' = "raised"
             /\ error' = [no_error EXCEPT !.type = r.raised]
             /\ UNCHANGED prefix_matchers
        ELSE /\ pc' = "loop"
             /\ prefix_matchers' = r.matchers
             /\ UNCHANGED error

\* the matchers for the explicit format and pattern are built first
BuildPrefixMatchers ==
    /\ pc = "start"
    /\ SetPrefixMatchers(make_prefix_matchers(options))
    /\ UNCHANGED <<extra_vars, compile_vars, options, resolve_vars, lines, last, acc_vars, model>>

Handled(key, ln, r) ==
    /\ r.raised = ""
    /\ r.key = key
    /\ lines' = Append(lines, ln)
    /\ last' = [key |-> r.key, prefix |-> r.prefix, core |-> r.core]
    /\ SetAcc(r.acc)

Failed(ln, r) ==
    /\ r.raised # ""
    /\ error' = line_error(Len(lines), ln, r.raised)
    /\ lines' = Append(lines, ln)
    /\ last' = [key |-> r.key, prefix |-> r.prefix, core |-> r.core]

SetModel(m) ==
    IF m.raised # ""
        THEN /\ pc' = "raised"
             /\ error' = [no_error EXCEPT !.type = m.raised]
             /\ UNCHANGED model
        ELSE /\ pc' = "returned"
             /\ model' = m.value
             /\ UNCHANGED error

\* the loop over lines has a record left to read
InLoop == pc = "loop" /\ Len(lines) < MaxLines

\* one iteration of the loop over lines in which try_parse returns after
\* calling the handler of `key` (no handler when key is "")
Iteration(key) ==
    \E ln \in LogLines :
        Handled(key, ln, try_parse(CurrentAcc, ln, prefix_matchers))

\* an iteration that dispatches to handle_duration
HandleDuration ==
    /\ InLoop
    /\ Iteration(M_duration)
    /\ UNCHANGED <<extra_vars, compile_vars, options, resolve_vars, prefix_matchers, model,
                   error, pc>>

\* an iteration that dispatches to handle_disconnection
HandleDisconnection ==
    /\ InLoop
    /\ Iteration(M_disconnection)
    /\ UNCHANGED <<extra_vars, compile_vars, options, resolve_vars, prefix_matchers, model,
                   error, pc>>

\* an iteration that dispatches to handle_connection_authorized
HandleConnectionAuthorized ==
    /\ InLoop
    /\ Iteration(M_authorized)
    /\ UNCHANGED <<extra_vars, compile_vars, options, resolve_vars, prefix_matchers, model,
                   error, pc>>

\* an iteration that dispatches to handle_process_holding_lock
HandleProcessHoldingLock ==
    /\ InLoop
    /\ Iteration(M_holding_lock)
    /\ UNCHANGED <<extra_vars, compile_vars, options, resolve_vars, prefix_matchers, model,
                   error, pc>>

\* an iteration that dispatches to handle_deadlock_detected
HandleDeadlockDetected ==
    /\ InLoop
    /\ Iteration(M_deadlock)
    /\ UNCHANGED <<extra_vars, compile_vars, options, resolve_vars, prefix_matchers, model,
                   error, pc>>

\* an iteration that dispatches to handle_automatic_analyze
HandleAutomaticAnalyze ==
    /\ InLoop
    /\ Iteration(M_analyze)
    /\ UNCHANGED <<extra_vars, compile_vars, options, resolve_vars, prefix_matchers, model,
                   error, pc>>

\* an iteration that dispatches to handle_automatic_vacuum
HandleAutomaticVacuum ==
    /\ InLoop
    /\ Iteration(M_vacuum)
    /\ UNCHANGED <<extra_vars, compile_vars, options, resolve_vars, prefix_matchers, model,
                   error, pc>>

\* an iteration over a record without marker: it is skipped
NoMarker ==
    /\ InLoop
    /\ Iteration("")
    /\ UNCHANGED <<extra_vars, compile_vars, options, resolve_vars, prefix_matchers, model,
                   error, pc>>

\* one iteration in which try_parse raises: the exception is re-raised with
\* the line number and text, and the run ends
FailedToParse ==
    /\ InLoop
    /\ \E ln \in LogLines : Failed(ln, try_parse(CurrentAcc, ln, prefix_matchers))
    /\ pc' = "raised"
    /\ UNCHANGED <<extra_vars, compile_vars, options, resolve_vars, prefix_matchers, acc_vars,
                   model>>

\* the loop is over: the Model is built and returned
ReturnModel ==
    /\ pc = "loop"
    /\ SetModel(build_model(CurrentAcc))
    /\ UNCHANGED <<extra_vars, compile_vars, options, resolve_vars, prefix_matchers, lines,
                   last, acc_vars>>

Next ==
    \/ BuildPrefixMatchers
    \/ HandleDuration
    \/ HandleDisconnection
    \/ HandleConnectionAuthorized
    \/ HandleProcessHoldingLock
    \/ HandleDeadlockDetected
    \/ HandleAutomaticAnalyze
    \/ HandleAutomaticVacuum
    \/ NoMarker
    \/ FailedToParse
    \/ ReturnModel

Spec == Init /\ [][Next]_vars

----------------------------------------------------------------------------
(* Properties of the format compiler *)

\* the percent-codes of a format string, in order: each letter that follows
\* a % which is not itself the second letter of a code
RECURSIVE codes_of(_)
codes_of(fmt) ==
    IF fmt = <<>> THEN <<>>
    ELSE IF Head(fmt) # "%" THEN codes_of(Tail(fmt))
    ELSE IF Len(fmt) = 1 THEN <<>>
    ELSE <<fmt[2]>> \o codes_of(Tail(Tail(fmt)))

HasUnknownCode(fmt) ==
    \E i \in 1..Len(codes_of(fmt)) : codes_of(fmt)[i] \notin percent_codes

HasRepeatedCode(fmt) ==
    \E i, j \in 1..Len(codes_of(fmt)) :
        i < j /\ codes_of(fmt)[i] = codes_of(fmt)[j] /\ codes_of(fmt)[i] # "%"

HasCode(fmt, c) == \E i \in 1..Len(codes_of(fmt)) : codes_of(fmt)[i] = c

InvalidFormat(fmt) ==
    \/ HasUnknownCode(fmt)
    \/ HasRepeatedCode(fmt)
    \/ ~HasCode(fmt, "p")
    \/ (~HasCode(fmt, "t") /\ ~HasCode(fmt, "m"))

\* C5: make_prefix_parser raises ValueError, and returns no matcher, for
\* every format with an unknown percent-code, a percent-code other than %%
\* used twice, no %p, or neither %t nor %m; repeating %% alone never raises
\* the used-twice or unknown-code error.
C5_InvalidFormatRaises ==
    made # "building" =>
        /\ InvalidFormat(log_prefix_format) => made = "ValueError"
        /\ (~HasUnknownCode(log_prefix_format) /\ ~HasRepeatedCode(log_prefix_format))
              => message \notin {"used twice", "unknown code"}

C5_Witness ==
    /\ made = "ValueError"
    /\ message = "used twice"
    /\ HasRepeatedCode(log_prefix_format)

\* C6: make_prefix_parser returns a matcher for every format made of
\* literals and recognized percent-codes with no code other than %% repeated,
\* with %p, and with at least one of %t and %m.
C6_ValidFormatCompiles ==
    (made # "building" /\ ~InvalidFormat(log_prefix_format)) => made = "matcher"

----------------------------------------------------------------------------
(* Properties of prefix resolution *)

explicit_candidates(opts) ==
    (IF opts.log_line_prefix_format # <<>>
        THEN <<make_prefix_parser(opts.log_line_prefix_format).prog>> ELSE <<>>)
    \o (IF opts.log_line_prefix_regex # <<>>
        THEN <<make_prefix_parser_from_regex(opts.log_line_prefix_regex).prog>>
        ELSE <<>>)

\* each candidate against the raw prefix and then its trimmed form
Attempts(cands, pfx) ==
    [i \in 1..(2 * Len(cands)) |->
        IF i % 2 = 1 THEN apply(cands[(i + 1) \div 2], pfx)
                     ELSE apply(cands[i \div 2], strip(pfx))]

FirstNonNull(atts) ==
    IF \E i \in 1..Len(atts) : atts[i].out # "None"
        THEN atts[CHOOSE i \in 1..Len(atts) :
                    /\ atts[i].out # "None"
                    /\ \A j \in 1..(i - 1) : atts[j].out = "None"]
        ELSE Outcome("ValueError", no_info)

Resolved == resolve_pc \in {"returned", "raised"}

\* C7 as stated: the candidates are the explicit format matcher, the
\* explicit regex matcher, then the built-in fallbacks, each tried raw and
\* then trimmed, and the first non-null result wins.
C7_FallbacksAlwaysTried ==
    Resolved =>
        rv = FirstNonNull(Attempts(explicit_candidates(options)
                                     \o DEFAULT_LOG_PREFIX_MATCHERS, prefix))

\* C7 amended: the candidates are the explicit format matcher then the
\* explicit regex matcher when either is supplied, and the built-in
\* fallbacks only when neither is; each is tried raw and then trimmed, the
\* first non-null result wins, and no candidate matching is a ValueError.
C7_FallbacksOnlyWithoutExplicit ==
    Resolved =>
        rv = FirstNonNull(Attempts(
                IF explicit_candidates(options) # <<>>
                    THEN explicit_candidates(options)
                    ELSE DEFAULT_LOG_PREFIX_MATCHERS, prefix))

\* an explicit matcher was supplied, nothing matched, and the prefix is
\* unresolved although a built-in fallback matches it
C7_Witness ==
    /\ resolve_pc = "raised"
    /\ rv.out = "ValueError"
    /\ explicit_candidates(options) # <<>>
    /\ parse_log_prefix_from(prefix, DEFAULT_LOG_PREFIX_MATCHERS, 1).out = "info"

----------------------------------------------------------------------------
(* Properties of one run of parse_postgres_lines *)

Range(f) == {f[i] : i \in 1..Len(f)}

\* the pids a Model refers to
statement_pids(m) == {s.pid : s \in Range(m.statements)}
event_pids(m) == {e.pid : e \in Range(m.events)}
related_pids(m) ==
    UNION {Range(e.primary_related_pids) \cup Range(e.secondary_related_pids) :
            e \in Range(m.events)}
referenced_pids(m) == statement_pids(m) \cup event_pids(m) \cup related_pids(m)

processes_of(m, pid) == {i \in 1..Len(m.processes) : m.processes[i].pid = pid}

\* C1: whenever parse_postgres_lines returns a Model, every pid that occurs
\* as Statement.pid, as Event.pid or in an Event's primary or secondary
\* related pids has exactly one Process in Model.processes, a pid that
\* occurs only in a wait queue included.
C1_EveryPidHasOneProcess ==
    pc = "returned" =>
        \A pid \in referenced_pids(model) : Cardinality(processes_of(model, pid)) = 1

\* a Model is returned in which a pid occurs in a wait queue and nowhere
\* else, and a pid was seen by more than one record
C1_Witness ==
    /\ pc = "returned"
    /\ \E pid \in related_pids(model) :
            /\ pid \notin statement_pids(model) \cup event_pids(model)
            /\ \E e \in Range(model.events) : pid \in Range(e.secondary_related_pids)
            /\ Cardinality(processes_of(model, pid)) = 1
    /\ Len(lines) = 2
    /\ Cardinality(event_pids(model) \cup statement_pids(model)) = 1

\* C2: for every returned Model, start_time <= end_time, every Event's time
\* and every Statement's end_time lie between start_time and end_time.
C2_SpanBoundsTimestamps ==
    pc = "returned" =>
        /\ model.start_time <= model.end_time
        /\ \A e \in Range(model.events) :
                model.start_time <= e.time /\ e.time <= model.end_time
        /\ \A s \in Range(model.statements) :
                model.start_time <= s.end_time /\ s.end_time <= model.end_time

\* a Model is returned whose span was moved by a later record: an Event and
\* a Statement at different times
C2_Witness ==
    /\ pc = "returned"
    /\ model.start_time < model.end_time
    /\ \E e \in Range(model.events) : e.time = model.end_time
    /\ \E s \in Range(model.statements) : s.end_time = model.start_time

\* C3 as stated: for every returned Model and every Statement s,
\* Model.start_time <= s.start_time, where s.start_time is s.end_time minus
\* the decoded duration.
C3_SpanBoundsStatementStart ==
    pc = "returned" =>
        \A s \in Range(model.statements) :
            /\ s.start_time = s.end_time - s.duration
            /\ model.start_time <= s.start_time

\* C3: for every returned Model and every Statement s, s.start_time is
\* s.end_time minus the decoded duration, and the span bounds the end of
\* the statement only: Model.start_time <= s.start_time + duration.
C3_SpanBoundsStatementEndOnly ==
    pc = "returned" =>
        \A s \in Range(model.statements) :
            /\ s.start_time = s.end_time - s.duration
            /\ model.start_time <= s.start_time + s.duration

\* a Model is returned with a Statement that started before the span
C3_Witness ==
    /\ pc = "returned"
    /\ \E s \in Range(model.statements) :
            /\ s.duration > 0
            /\ s.start_time < model.start_time

\* the context timestamps of the resolved records in which pid occurs as the
\* record's own pid, as lock holder or as wait-queue member
context_sightings(m, pid) ==
    {s.context.timestamp : s \in {x \in Range(m.statements) : x.pid = pid}}
    \cup {e.context.timestamp :
            e \in {x \in Range(m.events) :
                    \/ x.pid = pid
                    \/ pid \in Range(x.primary_related_pids)
                    \/ pid \in Range(x.secondary_related_pids)}}

\* the times at which the statements of pid started
statement_starts(m, pid) ==
    {s.start_time : s \in {x \in Range(m.statements) : x.pid = pid}}

Min(S) == CHOOSE x \in S : \A y \in S : x <= y

\* C4 as stated: for every Process p of a returned Model, p.first_appearance
\* is the minimum of the context timestamps of the resolved records in which
\* p.pid occurs as own pid, lock holder or wait-queue member.
C4_FirstAppearanceIsMinContextTime ==
    pc = "returned" =>
        \A i \in 1..Len(model.processes) :
            model.processes[i].first_appearance
                = Min(context_sightings(model, model.processes[i].pid))

\* C4: for every Process p of a returned Model, p.first_appearance is the
\* minimum over the resolved records in which p.pid occurs as own pid, lock
\* holder or wait-queue member of the record's context timestamp, where a
\* duration record also counts at the start time of its statement (its
\* context timestamp minus the duration).
C4_FirstAppearanceIsMinSighting ==
    pc = "returned" =>
        \A i \in 1..Len(model.processes) :
            model.processes[i].first_appearance
                = Min(context_sightings(model, model.processes[i].pid)
                        \cup statement_starts(model, model.processes[i].pid))

\* a Model is returned with a Process seen by two records at different
\* times, and a Process whose statement started before the timestamp of
\* every record it occurs in
C4_Witness ==
    /\ pc = "returned"
    /\ \E i \in 1..Len(model.processes) :
            model.processes[i].first_appearance
                < Min(context_sightings(model, model.processes[i].pid))
    /\ \E i \in 1..Len(model.processes) :
            /\ Cardinality(context_sightings(model, model.processes[i].pid)) = 2
            /\ model.events # <<>>
            /\ model.events[1].time > model.processes[i].first_appearance
            /\ model.events[1].pid = model.processes[i].pid

\* the records read so far that contain a marker
with_marker ==
    {k \in 1..Len(lines) : \E i \in 1..Len(dispatch) : contains(lines[k].line, dispatch[i])}

\* the entity a handler adds
handler_output(key) ==
    CASE key = M_duration -> "statement"
      [] key = M_disconnection -> "disconnect"
      [] key = M_authorized -> "connection authorized"
      [] key = M_holding_lock -> "waiting for lock"
      [] key = M_deadlock -> "deadlock"
      [] key = M_analyze -> "analyze"
      [] key = M_vacuum -> "vacuum"

\* what the iteration that read the last record added
last_output ==
    IF Len(flatten(stmts_by_process)) + Len(events) # Cardinality(with_marker)
        THEN "miscounted"
    ELSE IF last.key = M_duration THEN "statement"
    ELSE events[Len(events)].event_type

\* C8: the handler run for a record is that of the first marker, in the
\* order of the table, that occurs anywhere in the record text, even if a
\* marker listed later occurs earlier in the text; one handler runs per
\* record with a marker; prefix and payload are the text before and after
\* the first occurrence of that marker.
C8_TablePriority ==
    (pc = "loop" /\ Len(lines) > 0) =>
        LET text == lines[Len(lines)].line
        IN  IF Len(lines) \notin with_marker
                THEN /\ last.key = ""
                     /\ Len(flatten(stmts_by_process)) + Len(events)
                            = Cardinality(with_marker)
                ELSE \E i \in 1..Len(dispatch), n \in 1..Len(text) :
                        /\ contains(text, dispatch[i])
                        /\ \A j \in 1..(i - 1) : ~contains(text, dispatch[j])
                        /\ last.key = dispatch[i]
                        /\ text[n].k = dispatch[i]
                        /\ \A m \in 1..(n - 1) : text[m].k # dispatch[i]
                        /\ last.prefix = SubSeq(text, 1, n - 1)
                        /\ last.core = SubSeq(text, n + 1, Len(text))
                        /\ last_output = handler_output(dispatch[i])

\* a record was handled as a disconnection although the marker of automatic
\* vacuum, listed later, occurs earlier in its text
C8_Witness ==
    /\ pc = "loop"
    /\ Len(lines) > 0
    /\ last.key = M_disconnection
    /\ contains(last.prefix, M_vacuum)
    /\ events[Len(events)].event_type = "disconnect"

\* C9: ingesting a sequence of records none of which contains a marker, the
\* empty sequence included, raises nothing and returns a Model with no
\* statements, no events and no processes.
C9_NoMarkerNeverRaises ==
    with_marker = {} =>
        /\ pc # "raised"
        /\ pc = "returned" =>
                /\ model.statements = <<>>
                /\ model.events = <<>>
                /\ model.processes = <<>>

\* whether processing the record raises
raises(ln) == try_parse(acc0, ln, prefix_matchers).raised # ""

\* C10: if processing a record raises, ingestion stops at the first such
\* record in input order, no Model is returned, no later record is
\* processed, and the error names the 1-based index of that record and its
\* raw text.
C10_FailFast ==
    /\ (pc = "raised" /\ lines # <<>> /\ with_marker # {}) =>
            /\ error.type = "RuntimeError"
            /\ error.index \in 1..Len(lines)
            /\ raises(lines[error.index])
            /\ \A k \in 1..(error.index - 1) : ~raises(lines[k])
            /\ error.index = Len(lines)
            /\ error.text = lines[error.index].line
            /\ model = no_model
    /\ (pc \in {"loop", "returned"}) => \A k \in 1..Len(lines) : ~raises(lines[k])

\* the second record of the input raised, for an unresolved prefix, a
\* malformed duration line or a malformed lock-wait payload
C10_Witness ==
    /\ pc = "raised"
    /\ error.type = "RuntimeError"
    /\ error.index = 2
    /\ error.cause \in {"ValueError", "RuntimeError"}
    /\ Len(events) + Len(flatten(stmts_by_process)) = 1

----------------------------------------------------------------------------
(* merge_continuation_lines, record by record; parse_log_data_automagically *)
(* runs it to the end with list(lines) and lets its exception through       *)

\* line.line.startswith("\t")
starts_with_tab(ln) == ln.line # <<>> /\ Head(ln.line) = Ch("\t")

\* a continuation is refused whatever came before it
is_orphan_always(pending) == TRUE

\* last_line is None
is_orphan(pending) == pending = None

\* the continuation loses its leading tab
append_continuation_without_tab(pending, ln) ==
    [pending EXCEPT !.line = @ \o <<Ch("\n")>> \o Tail(ln.line)]

\* last_line.line += "\n" + line.line
append_continuation(pending, ln) ==
    [pending EXCEPT !.line = @ \o <<Ch("\n")>> \o ln.line]

\* the pending record is forgotten
yield_nothing(out, pending) == out

\* if last_line: yield last_line
yield_last_line(out, pending) ==
    IF pending # None THEN Append(out, pending[1]) ELSE out

\* RuntimeError("Continuation line without preceding line")
orphan_error == [no_error EXCEPT !.type = "RuntimeError"]

MergeInputs ==
    {LogLine(None, <<Word(1)>>),
     LogLine(Some(1), <<Word(2), Ch("\t"), Word(3)>>),
     LogLine(None, <<>>),
     LogLine(None, <<Ch("\t"), Word(4)>>),
     LogLine(Some(2), <<Ch("\t")>>),
     LogLine(None, prefix_old(1, 1, 1) \o <<Mark(M_disconnection), Word(6)>>)}

InitMerge ==
    /\ IdleCompile
    /\ IdleResolve
    /\ IdleIngest
    /\ IdleCalls
    /\ options = ParseOptions(<<>>, <<>>)
    /\ unmerged_lines = <<>>
    /\ last_line = None
    /\ merged_lines = <<>>
    /\ merge_error = no_error
    /\ merge_pc = "loop"

MergeIdle == UNCHANGED <<compile_vars, options, resolve_vars, ingest_vars, call_vars>>

\* a record that does not start with a tab: the pending record is yielded
\* and a copy of this one becomes the pending record
NewRecord ==
    /\ merge_pc = "loop"
    /\ Len(unmerged_lines) < MaxMergeLines
    /\ \E ln \in MergeInputs :
        /\ ~starts_with_tab(ln)
        /\ unmerged_lines' = Append(unmerged_lines, ln)
        /\ merged_lines' = yield_last_line(merged_lines, last_line)
        /\ last_line' = Some(ln)
    /\ UNCHANGED <<merge_error, merge_pc>>
    /\ MergeIdle

\* a record that starts with a tab while a record is pending
Continuation ==
    /\ merge_pc = "loop"
    /\ Len(unmerged_lines) < MaxMergeLines
    /\ \E ln \in MergeInputs :
        /\ starts_with_tab(ln)
        /\ ~is_orphan(last_line)
        /\ unmerged_lines' = Append(unmerged_lines, ln)
        /\ last_line' = Some(append_continuation(last_line[1], ln))
    /\ UNCHANGED <<merged_lines, merge_error, merge_pc>>
    /\ MergeIdle

\* a record that starts with a tab while none is pending
OrphanContinuation ==
    /\ merge_pc = "loop"
    /\ Len(unmerged_lines) < MaxMergeLines
    /\ \E ln \in MergeInputs :
        /\ starts_with_tab(ln)
        /\ is_orphan(last_line)
        /\ unmerged_lines' = Append(unmerged_lines, ln)
    /\ merge_error' = orphan_error
    /\ merge_pc' = "raised"
    /\ UNCHANGED <<last_line, merged_lines>>
    /\ MergeIdle

\* the input is exhausted: the pending record is yielded
EndOfInput ==
    /\ merge_pc = "loop"
    /\ merged_lines' = yield_last_line(merged_lines, last_line)
    /\ merge_pc' = "done"
    /\ UNCHANGED <<unmerged_lines, last_line, merge_error>>
    /\ MergeIdle

NextMerge == NewRecord \/ Continuation \/ OrphanContinuation \/ EndOfInput

SpecMerge == InitMerge /\ [][NextMerge]_vars

\* C11: merge_continuation_lines raises when the first record of its input
\* starts with a tab, and only then: an input whose first record does not
\* start with a tab is merged to the end without error.
C11_RaisesOnlyOnLeadingTab ==
    /\ merge_pc = "raised" =>
            /\ starts_with_tab(unmerged_lines[1])
            /\ merge_error.type = "RuntimeError"
            /\ merged_lines = <<>>
    /\ (unmerged_lines # <<>> /\ starts_with_tab(unmerged_lines[1]))
            => merge_pc = "raised"

\* the first record started with a tab and the pass raised
C11_Witness ==
    /\ merge_pc = "raised"
    /\ Len(unmerged_lines) = 1
    /\ starts_with_tab(unmerged_lines[1])

\* C12: the orphan-continuation error raised during continuation merging
\* reaches the caller of the pipeline annotated with the index of the
\* offending record and its raw text.
C12_OrphanErrorAnnotated ==
    merge_pc = "raised" =>
        /\ merge_error.index = Len(unmerged_lines)
        /\ merge_error.text = unmerged_lines[Len(unmerged_lines)].line

\* the positions of the records that do not start with a tab
heads(ls) == {k \in 1..Len(ls) : ~starts_with_tab(ls[k])}

\* the last position of the group that starts at head h: every record
\* after h up to it starts with a tab, and the next one does not
group_end(ls, h) ==
    CHOOSE k \in h..Len(ls) :
        /\ \A i \in (h + 1)..k : starts_with_tab(ls[i])
        /\ k = Len(ls) \/ ~starts_with_tab(ls[k + 1])

\* the text of ls[h], then for each of ls[h+1..k] a newline and its text,
\* with or without its first character
RECURSIVE joined(_, _, _, _)
joined(ls, h, k, keep_tab) ==
    IF k = h THEN ls[h].line
    ELSE joined(ls, h, k - 1, keep_tab) \o <<Ch("\n")>>
            \o (IF keep_tab THEN ls[k].line ELSE Tail(ls[k].line))

\* the pending record as a function of the input read so far
pending_text(keep_tab) ==
    LET h == CHOOSE k \in heads(unmerged_lines) :
                    \A j \in heads(unmerged_lines) : j <= k
    IN  joined(unmerged_lines, h, Len(unmerged_lines), keep_tab)

\* C13 as stated: the text appended to the preceding record, after a
\* newline, is the continuation's text with its leading tab removed.
C13_ContinuationLosesTab ==
    (merge_pc = "loop" /\ last_line # None) =>
        last_line[1].line = pending_text(FALSE)

\* C13: the text appended to the preceding record, after a newline, is the
\* continuation's text as it is, leading tab included.
C13_ContinuationKeepsTab ==
    (merge_pc = "loop" /\ last_line # None) =>
        last_line[1].line = pending_text(TRUE)

\* two continuations were appended to the pending record
C13_Witness ==
    /\ merge_pc = "loop"
    /\ Len(unmerged_lines) >= 3
    /\ starts_with_tab(unmerged_lines[Len(unmerged_lines)])
    /\ starts_with_tab(unmerged_lines[Len(unmerged_lines) - 1])
    /\ last_line # None
    /\ last_line[1].line = pending_text(TRUE)

\* the k-th head, in input order
nth_head(ls, k) ==
    CHOOSE h \in heads(ls) : Cardinality({j \in heads(ls) : j <= h}) = k

\* C14: for an input whose first record does not start with a tab, one
\* record is emitted per record that does not start with a tab, in input
\* order; its text is the head's text followed, for each immediately
\* following tab-prefixed record in order, by a newline and that line; a
\* record without continuation is emitted unchanged; the last pending
\* record is emitted at the end of the input.
C14_OneRecordPerHead ==
    merge_pc = "done" =>
        /\ Len(merged_lines) = Cardinality(heads(unmerged_lines))
        /\ \A k \in 1..Len(merged_lines) :
            LET h == nth_head(unmerged_lines, k)
            IN  /\ merged_lines[k].timestamp = unmerged_lines[h].timestamp
                /\ merged_lines[k].line
                    = joined(unmerged_lines, h, group_end(unmerged_lines, h), TRUE)
                /\ group_end(unmerged_lines, h) = h
                    => merged_lines[k] = unmerged_lines[h]

\* an input of two groups was merged to its end: a record with a
\* continuation, then a record without
C14_Witness ==
    /\ merge_pc = "done"
    /\ Len(unmerged_lines) = 3
    /\ Len(merged_lines) = 2
    /\ starts_with_tab(unmerged_lines[2])
    /\ merged_lines[2] = unmerged_lines[3]

----------------------------------------------------------------------------
(* One call of a decoding function on a payload *)

Call(fn, given, arg) == [fn |-> fn, given |-> given, arg |-> arg]

\* lines that follow the first physical line of a payload
FollowingLines ==
    {<<>>,
     <<Ch("\n"), Ch("\t"), Word(5)>>,
     <<Ch("\n"), Dec3(999999), sp, ms_unit>>}

\* what is written before the numeral and after the first line's text
Padding == {<<>>, <<sp>>}

Thousandths == {0, 5, 12000, 1074754}

\* what follows " ms" on the first line: nothing, or the label and the text
\* written after it
StatementParts ==
    {None, Some(<<>>), Some(<<Sql(1)>>), Some(<<sp, Sql(1)>>),
     Some(<<sp, Sql(1), sp, Sql(2)>>)}

\* the payload '<numeral> ms' or '<numeral> ms  statement:<text>'
duration_payload(d) ==
    d.pad \o <<Dec3(d.n), sp, ms_unit>>
        \o (IF d.part = None THEN d.pad
            ELSE <<sp, sp, statement_label>> \o d.part[1])
        \o d.following

DurationPayloads ==
    {Call("parse_duration_log_line", d, duration_payload(d)) :
        d \in [n : Thousandths, part : StatementParts, pad : Padding,
               following : FollowingLines]}

\* payloads whose first physical line has another shape
MalformedDurationPayloads ==
    {Call("parse_duration_log_line", [n |-> 0], toks) :
        toks \in {<<>>,
                  <<Ch("\n"), Dec3(12000), sp, ms_unit>>,
                  <<Dec3(12000), ms_unit>>,
                  <<Dec3(12000), sp, ms_unit, sp, Word(9)>>,
                  <<Dec3(12000), sp, ms_unit, statement_label, Sql(1)>>,
                  <<Digits(12), sp, ms_unit>>,
                  <<Word(9), Ch("\n"), Dec3(12000), sp, ms_unit>>}}

RECURSIVE comma_separated(_)
comma_separated(pids) ==
    IF pids = <<>> THEN <<>>
    ELSE IF Len(pids) = 1 THEN <<Digits(pids[1])>>
    ELSE <<Digits(pids[1]), Ch(","), sp>> \o comma_separated(Tail(pids))

\* the payload '<holder>. Wait queue: <p1>, <p2>.' or '<holder>.'
holding_lock_payload(d) ==
    <<Digits(d.holder)>>
        \o (IF d.queue = None THEN <<>>
            ELSE <<wait_queue_sep>> \o comma_separated(d.queue[1]))
        \o <<Ch(".")>> \o d.following

WaitQueues == {None, Some(<<>>), Some(<<3>>), Some(<<3, 4>>), Some(<<4, 3, 5>>)}

HoldingLockPayloads ==
    {Call("parse_holding_lock_log_line", d, holding_lock_payload(d)) :
        d \in [holder : {1, 2}, queue : WaitQueues, following : FollowingLines]}

MalformedHoldingLockPayloads ==
    {Call("parse_holding_lock_log_line", [holder |-> 0], toks) :
        toks \in {<<>>, <<Word(9)>>,
                  <<Digits(1), wait_queue_sep, Word(9), Ch(".")>>}}

\* a word of SQL text, written in some letter case
SqlWord(w) == Tok(w, 0)

ellipsis == Tok("...", 0)

\* str.lower() of one word
lower_word(tok) ==
    CASE tok.k = "SELECT" -> SqlWord("select")
      [] tok.k = "WHERE" -> SqlWord("where")
      [] tok.k = "A" -> SqlWord("a")
      [] tok.k = "B" -> SqlWord("b")
      [] OTHER -> tok

\* the text left in the case it was written in
sql_not_lowered(text) == text

\* str.lower()
sql_lower(text) == [i \in 1..Len(text) |-> lower_word(text[i])]

\* str.split(): the maximal runs without whitespace
RECURSIVE sql_split(_)
sql_split(text) ==
    IF lstrip(text) = <<>> THEN <<>>
    ELSE <<before(lstrip(text), index_of(lstrip(text), whitespace))>>
            \o sql_split(after(lstrip(text), index_of(lstrip(text), whitespace)))

\* " ".join(words)
RECURSIVE sql_join(_)
sql_join(words) ==
    IF words = <<>> THEN <<>>
    ELSE IF Len(words) = 1 THEN words[1]
    ELSE words[1] \o <<sp>> \o sql_join(Tail(words))

\* sql.startswith("select ")
starts_with_select(text) ==
    Len(text) >= 2 /\ text[1] = SqlWord("select") /\ text[2] = sp

\* the positions at which " where " starts
where_positions(text) ==
    {i \in 1..(Len(text) - 2) :
        text[i] = sp /\ text[i + 1] = SqlWord("where") /\ text[i + 2] = sp}

\* sql.index(" where "), 0 for the ValueError
where_index(text) ==
    IF where_positions(text) = {} THEN 0
    ELSE CHOOSE i \in where_positions(text) :
            \A j \in where_positions(text) : i <= j

\* classify_sql once the text is normalized
classify_normalized(text) ==
    IF starts_with_select(text) /\ where_index(text) # 0
        THEN SubSeq(text, 1, where_index(text) - 1) \o <<ellipsis>>
        ELSE text

classify_sql(text) ==
    classify_normalized(sql_join(sql_split(sql_lower(strip(text)))))

MaxSqlWords == 4    \* most words in one SQL text

SqlWords ==
    {SqlWord(w) : w \in {"SELECT", "select", "WHERE", "where", "A", "b"}}

WordLists == UNION {[1..n -> SqlWords] : n \in 0..MaxSqlWords}

Separators == {<<sp>>, <<Ch("\t"), sp>>, <<Ch("\n")>>}

\* the words written one after the other with sep between them
RECURSIVE written(_, _)
written(words, sep) ==
    IF words = <<>> THEN <<>>
    ELSE IF Len(words) = 1 THEN <<words[1]>>
    ELSE <<words[1]>> \o sep \o written(Tail(words), sep)

sql_text(d) == d.pad \o written(d.words, d.sep) \o d.pad

SqlTexts ==
    {Call("classify_sql", d, sql_text(d)) :
        d \in [words : WordLists, sep : Separators, pad : Padding]}

\* parse_timestamp of the text of a timestamp
parse_timestamp(tok) == tok.v

\* the line kept of a textPayload
payload_line(line) ==
    IF contains(line, "\r") THEN after(line, index_of(line, {"\r"})) ELSE line

\* ingest_logs_google_json(records): the LogLines yielded
ingest_logs_google_json(records) ==
    [i \in 1..Len(records) |->
        LogLine(Some(parse_timestamp(records[i].timestamp)),
                payload_line(records[i].textPayload))]

MaxRecords == 2     \* most records in one JSON input

\* a record written from its time, the text before the first carriage
\* return and, if there is one, the text after it
json_record(d) ==
    [timestamp |-> Ts(d.t),
     textPayload |-> d.before
        \o (IF d.trailer = None THEN <<>> ELSE <<Ch("\r")>> \o d.trailer[1])]

RecordDescriptors ==
    [t : 1..MaxTime, before : {<<>>, <<Word(1)>>},
     trailer : {None, Some(<<>>), Some(<<Word(2)>>),
                Some(<<Word(2), Ch("\r"), Word(3)>>)}]

JsonInputs ==
    {Call("ingest_logs_google_json", ds, [i \in 1..Len(ds) |-> json_record(ds[i])]) :
        ds \in UNION {[1..n -> RecordDescriptors] : n \in 0..MaxRecords}}

\* the text a format with %q is matched against: the part before %q as
\* the server writes it, followed by the section after %q
section_after_q(fmt) ==
    IF fmt = Fmt_old THEN <<Word(1), Ch("@"), Word(2)>>
    ELSE <<Word(1), Ch("@"), Word(2), sp, Ch("("), Word(3), Ch(")")>>

\* the section whole, absent, or only the part from its i-th to its j-th
\* piece
section_written(d) ==
    CASE d.section = "whole" -> section_after_q(d.fmt)
      [] d.section = "absent" -> <<>>
      [] d.section = "part" -> SubSeq(section_after_q(d.fmt), d.i, d.j)

prefix_written(d) == prefix_truncated(d.t, d.pid, d.l) \o section_written(d)

\* <<section, i, j>>: whole, absent, or a proper non-empty part
Sections(fmt) ==
    {<<"whole", 0, 0>>, <<"absent", 0, 0>>}
    \cup {<<"part", i, j>> : i \in 1..Len(section_after_q(fmt)),
                             j \in 1..Len(section_after_q(fmt))}

PrefixDescriptorsOf(fmt) ==
    {[fmt |-> fmt, t |-> t, pid |-> pid, l |-> l,
      section |-> sec[1], i |-> sec[2], j |-> sec[3]] :
        t \in 1..MaxTime, pid \in 1..MaxPid, l \in 1..2,
        sec \in {x \in Sections(fmt) :
                    x[2] <= x[3] /\ x[3] - x[2] + 1 < Len(section_after_q(fmt))}}

PrefixDescriptors == PrefixDescriptorsOf(Fmt_old) \cup PrefixDescriptorsOf(Fmt_app)

Prefixes == {Call("matcher", d, prefix_written(d)) : d \in PrefixDescriptors}

\* a format whose %p comes after %q
Fmt_q_pid == <<"%","t"," ","%","q","[","%","p","]">>

\* prefixes for Fmt_new and Fmt_q_pid, the pid written as any digit run,
\* "0" included: the bracketed pid present, absent, or other text
pid_prefix_written(d) ==
    CASE d.section = "pid" -> <<Ts(d.t), sp, Ch("["), Digits(d.pid), Ch("]")>>
      [] d.section = "no pid" -> <<Ts(d.t), sp>>
      [] d.section = "other" -> <<Word(4), sp>>

PidPrefixDescriptors ==
    {[fmt |-> fmt, t |-> t, pid |-> pid, l |-> 0, section |-> sec, i |-> 0, j |-> 0] :
        fmt \in {Fmt_new, Fmt_q_pid}, t \in 1..MaxTime, pid \in 0..MaxPid,
        sec \in {"pid", "no pid", "other"}}

PidPrefixes == {Call("matcher", d, pid_prefix_written(d)) : d \in PidPrefixDescriptors}

\* literal characters of a format: a letter, a space, punctuation, a tab
\* and the euro sign
Literals == {"a", " ", "[", "%", "\t", "U+20AC"}

\* the format "%t%p" followed by the literal character, % written as %%
literal_format(ch) ==
    <<"%", "t", "%", "p">> \o (IF ch = "%" THEN <<"%", "%">> ELSE <<ch>>)

\* a prefix with the characters `written` where the format has its literal
literal_prefix_written(d) ==
    <<Ts(d.t), Digits(d.pid)>> \o [i \in 1..Len(d.written) |-> Ch(d.written[i])]

LiteralPrefixDescriptors ==
    {[fmt |-> literal_format(ch), t |-> 1, pid |-> 1, l |-> 0, section |-> "literal",
      i |-> 0, j |-> 0, ch |-> ch, written |-> w] :
        ch \in Literals,
        w \in {<<c>> : c \in Literals} \cup {<<>>, <<" ", "a", "c">>, <<"a", "a">>}}

LiteralPrefixes ==
    {Call("matcher", d, literal_prefix_written(d)) : d \in LiteralPrefixDescriptors}

\* matcher(s) for the matcher make_prefix_parser returned
matcher_outcome(o) ==
    IF o.out = "RuntimeError" THEN Raised("RuntimeError") ELSE Returned(o)

matcher_call(parser, s) ==
    IF parser.raised # "" THEN Raised(parser.raised)
    ELSE matcher_outcome(apply(parser.prog, s))

InitCalls ==
    /\ IdleCompile
    /\ IdleResolve
    /\ IdleIngest
    /\ IdleMerge
    /\ options = ParseOptions(<<>>, <<>>)
    /\ call \in DurationPayloads \cup MalformedDurationPayloads
                \cup HoldingLockPayloads \cup MalformedHoldingLockPayloads
                \cup SqlTexts \cup Prefixes \cup PidPrefixes \cup JsonInputs
                \cup LiteralPrefixes
    /\ result = Returned(<<>>)
    /\ call_pc = "call"

CallsIdle == UNCHANGED <<compile_vars, options, resolve_vars, ingest_vars, merge_vars>>

ParseDurationLogLine ==
    /\ call_pc = "call"
    /\ call.fn = "parse_duration_log_line"
    /\ result' = parse_duration_log_line(call.arg)
    /\ call_pc' = "done"
    /\ UNCHANGED call
    /\ CallsIdle

ParseHoldingLockLogLine ==
    /\ call_pc = "call"
    /\ call.fn = "parse_holding_lock_log_line"
    /\ result' = parse_holding_lock_log_line(call.arg)
    /\ call_pc' = "done"
    /\ UNCHANGED call
    /\ CallsIdle

ClassifySql ==
    /\ call_pc = "call"
    /\ call.fn = "classify_sql"
    /\ result' = Returned(classify_sql(call.arg))
    /\ call_pc' = "done"
    /\ UNCHANGED call
    /\ CallsIdle

\* the key of a text is classified in its turn
ClassifyKey ==
    /\ call_pc = "done"
    /\ call.fn = "classify_sql"
    /\ call' = Call("classify_sql(key)", call.given, result.value)
    /\ result' = Returned(classify_sql(result.value))
    /\ UNCHANGED call_pc
    /\ CallsIdle

\* make_prefix_parser(fmt)(s)
ApplyMatcher ==
    /\ call_pc = "call"
    /\ call.fn = "matcher"
    /\ result' = matcher_call(make_prefix_parser(call.given.fmt), call.arg)
    /\ call_pc' = "done"
    /\ UNCHANGED call
    /\ CallsIdle

IngestLogsGoogleJson ==
    /\ call_pc = "call"
    /\ call.fn = "ingest_logs_google_json"
    /\ result' = Returned(ingest_logs_google_json(call.arg))
    /\ call_pc' = "done"
    /\ UNCHANGED call
    /\ CallsIdle

NextCalls ==
    \/ IngestLogsGoogleJson
    \/ ApplyMatcher
    \/ ParseDurationLogLine
    \/ ParseHoldingLockLogLine
    \/ ClassifySql
    \/ ClassifyKey

SpecCalls == InitCalls /\ [][NextCalls]_vars

Done(fn) == call_pc = "done" /\ call.fn = fn

\* C15: parse_duration_log_line uses only the first physical line of its
\* payload; when that line is '<digits>.<3 digits> ms', optionally followed
\* by a statement, duration_usec is the whole part times 1000 plus the
\* three fractional digits; a first line of any other shape raises.
C15_DurationFromFirstLine ==
    Done("parse_duration_log_line") =>
        IF call \in DurationPayloads
            THEN /\ result.raised = ""
                 /\ result.value.duration_usec = call.given.n
                 /\ result.value
                        = parse_duration_log_line(
                            duration_payload([call.given EXCEPT !.following = <<>>])).value
            ELSE result.raised # ""

\* '1074.754 ms' followed by a statement and by further lines decoded to
\* 1074754
C15_Witness ==
    /\ Done("parse_duration_log_line")
    /\ call.given.n = 1074754
    /\ call.given.part # None
    /\ call.given.following # <<>>
    /\ result.value.duration_usec = 1074754

\* C16: the payload '<numeral> ms  statement: X' decodes to statement = X,
\* with no leading whitespace added or kept, and a payload without
\* statement part decodes to statement = None.
C16_StatementAsWritten ==
    (Done("parse_duration_log_line") /\ call \in DurationPayloads) =>
        result.value.statement
            = IF call.given.part = None THEN None
              ELSE Some(lstrip(call.given.part[1]))

holding_lock_given(d) ==
    HoldingLockLogEntry(d.holder, IF d.queue = None THEN <<>> ELSE d.queue[1])

\* C17: parse_holding_lock_log_line decodes the first physical line
\* '<holder>. Wait queue: <p1>, <p2>, ... .' into holding_lock_pid = holder
\* and wait_queue_pid = the listed pids in their written order; a wait
\* queue written as a bare '.' and a line without 'Wait queue' part decode
\* to an empty wait queue, not to an error.
C17_HoldingLockDecoded ==
    (Done("parse_holding_lock_log_line") /\ call \in HoldingLockPayloads) =>
        /\ result.raised = ""
        /\ result.value = holding_lock_given(call.given)

\* a wait queue written as a bare '.' decoded to the empty queue
C17_Witness ==
    /\ Done("parse_holding_lock_log_line")
    /\ call \in HoldingLockPayloads
    /\ call.given.queue = Some(<<>>)
    /\ result.raised = ""
    /\ result.value.wait_queue_pid = <<>>

\* the words in lower case, single spaces between them
normal_form(words) == written(sql_lower(words), <<sp>>)

\* the position of the first word "where" that has a word after it, 0 if
\* there is none
first_where(words) ==
    IF \E i \in 1..(Len(words) - 1) : lower_word(words[i]) = SqlWord("where")
        THEN CHOOSE i \in 1..(Len(words) - 1) :
                /\ lower_word(words[i]) = SqlWord("where")
                /\ \A j \in 1..(i - 1) : lower_word(words[j]) # SqlWord("where")
        ELSE 0

is_select_where(words) ==
    /\ Len(words) >= 2
    /\ lower_word(words[1]) = SqlWord("select")
    /\ first_where(words) # 0

\* C18: classify_sql lowercases, collapses every whitespace run to one
\* space and trims; for a text that then starts with 'select ' and contains
\* ' where ' the key is the text before the first ' where ' followed by
\* '...', otherwise the normalized text.  SELECT statements that differ only
\* in letter case, whitespace or what follows the first WHERE get the same
\* key, different select lists give different keys, and the key of a key is
\* that key.
C18_ClassifySql ==
    /\ Done("classify_sql") =>
        LET words == call.given.words
            key == result.value
        IN  /\ key = IF is_select_where(words)
                        THEN normal_form(SubSeq(words, 1, first_where(words) - 1))
                                \o <<ellipsis>>
                        ELSE normal_form(words)
            /\ \A sep \in Separators, pad \in Padding :
                    classify_sql(sql_text([words |-> sql_lower(words),
                                           sep |-> sep, pad |-> pad])) = key
            /\ is_select_where(words) =>
                \A w \in SqlWords :
                    /\ classify_sql(written(
                            SubSeq(words, 1, first_where(words)) \o <<w>>, <<sp>>)) = key
                    /\ (first_where(words) = 3 /\ lower_word(w) # lower_word(words[2]))
                        => classify_sql(written(
                                [words EXCEPT ![2] = w], <<sp>>)) # key
    /\ Done("classify_sql(key)") => result.value = call.arg

\* a SELECT written in upper case with tabs was cut at its WHERE, and the
\* key was classified again
C18_Witness ==
    /\ Done("classify_sql(key)")
    /\ call.given.words
        = <<SqlWord("SELECT"), SqlWord("A"), SqlWord("WHERE"), SqlWord("b")>>
    /\ call.given.sep = <<Ch("\t"), sp>>
    /\ call.arg = <<SqlWord("select"), sp, SqlWord("a"), ellipsis>>
    /\ result.value = call.arg

----------------------------------------------------------------------------
(* parse_postgres_lines on a whole list of records *)

\* the loop over lines, from the accumulators acc on
RECURSIVE parse_lines(_, _, _), parse_rest(_, _, _)
parse_lines(acc, ls, ms) ==
    IF ls = <<>> THEN Returned(acc)
    ELSE parse_rest(try_parse(acc, Head(ls), ms), Tail(ls), ms)

parse_rest(r, rest, ms) ==
    IF r.raised # "" THEN Raised("RuntimeError")
    ELSE parse_lines(r.acc, rest, ms)

model_of(r) == IF r.raised # "" THEN r ELSE build_model(r.value)

\* parse_postgres_lines once the matchers are built, or their
\* construction raised
parse_with_matchers(ls, pm) ==
    IF pm.raised # "" THEN Raised(pm.raised)
    ELSE model_of(parse_lines(acc0, ls, pm.matchers))

parse_postgres_lines(ls, opts) == parse_with_matchers(ls, make_prefix_matchers(opts))

\* TINY_LOG_DATA: the ten lines, with the ten pids numbered 1 to 10 in the
\* order they first occur and the timestamps in seconds
TINY_LOG_DATA ==
    <<LogLine(None, prefix_truncated(1, 1, 1) \o <<Word(6)>>),
      LogLine(None, prefix_old(1, 1, 2) \o <<Mark(M_authorized), Word(6)>>),
      LogLine(None, prefix_truncated(1, 2, 2) \o <<Mark(M_analyze), Word(7)>>),
      LogLine(None, prefix_old(15, 3, 56)
                      \o <<Mark(M_duration), Dec3(1074754), sp, ms_unit, sp, sp,
                           statement_label, sp, Sql(1)>>),
      LogLine(None, prefix_old(24, 4, 29)
                      \o <<Mark(M_holding_lock), Digits(3), wait_queue_sep,
                           Digits(4), Ch(".")>>),
      LogLine(None, prefix_old(69, 5, 77) \o <<Mark(M_disconnection), Word(6)>>),
      LogLine(None, <<Word(8)>>),
      LogLine(None, prefix_old(177, 6, 95) \o <<Mark(M_deadlock)>>),
      LogLine(None, prefix_old(241, 7, 11)
                      \o <<Mark(M_holding_lock), Digits(8), wait_queue_sep, Ch(".")>>),
      LogLine(None, prefix_old(434, 9, 96)
                      \o <<Mark(M_holding_lock), Digits(10), wait_queue_sep,
                           Digits(3), Ch(","), sp, Digits(9), Ch(".")>>)>>

\* the records read so far that are classified as duration, and those
\* classified under one of the six other markers
duration_records == {k \in with_marker : contains(lines[k].line, M_duration)}
event_records == with_marker \ duration_records

\* the k-th record, in input order, of those at the positions S
nth_of(S, k) == CHOOSE h \in S : Cardinality({j \in S : j <= h}) = k

\* the marker of the handler that adds events of this type
marker_of(event_type) ==
    CHOOSE key \in (Range(dispatch) \ {M_duration}) :
        handler_output(key) = event_type

\* C19: on successful ingestion the number of Statements is the number of
\* records classified as duration, the number of Events is the number of
\* records classified under one of the six other markers, records without
\* marker add nothing, and the Events are in the order of their records;
\* the ten-line sample gives 7 events, 1 statement and 10 processes.
C19_OneEntityPerRecord ==
    /\ pc = "returned" =>
        /\ Len(model.statements) = Cardinality(duration_records)
        /\ Len(model.events) = Cardinality(event_records)
        /\ \A j \in 1..Len(model.events) :
            LET text == lines[nth_of(event_records, j)].line
                key == marker_of(model.events[j].event_type)
            IN  /\ contains(text, key)
                /\ \A i \in 1..Len(dispatch) :
                        contains(text, dispatch[i])
                            => \E i2 \in 1..i : dispatch[i2] = key
    /\ LET sample == parse_postgres_lines(TINY_LOG_DATA, ParseOptions(<<>>, <<>>))
       IN  /\ sample.raised = ""
           /\ Len(sample.value.events) = 7
           /\ Len(sample.value.statements) = 1
           /\ Len(sample.value.processes) = 10

\* a Model is returned for a record without marker followed by a record
\* that gave an Event, and one for a Statement followed by an Event
C19_Witness ==
    /\ pc = "returned"
    /\ Len(lines) = 2
    /\ Len(model.events) = 1
    /\ \/ with_marker = {2}
       \/ Len(model.statements) = 1 /\ duration_records = {1}

\* C20: a format with %q accepts a prefix whose section after %q is whole,
\* capturing all its fields, and one where the section is absent, leaving
\* those fields None while timestamp, pid and line number are captured;
\* it rejects a prefix holding only part of the section.
C20_OptionalSectionWholeOrAbsent ==
    Done("matcher") /\ call \in Prefixes =>
        /\ result.raised = ""
        /\ call.given.section = "whole" =>
            /\ result.value.out = "info"
            /\ result.value.info =
                    LogPrefixInfo(call.given.t, call.given.pid, Some(call.given.l),
                                  Some(<<Word(1)>>), Some(<<Word(2)>>),
                                  IF call.given.fmt = Fmt_app
                                      THEN Some(<<Word(3)>>) ELSE None)
        /\ call.given.section = "absent" =>
            /\ result.value.out = "info"
            /\ result.value.info =
                    LogPrefixInfo(call.given.t, call.given.pid, Some(call.given.l),
                                  None, None, None)
        /\ call.given.section = "part" => result.value.out = "None"

\* the section is absent and the matcher returned the fields before %q
C20_Witness ==
    /\ Done("matcher")
    /\ call.given.section = "absent"
    /\ call.given.fmt = Fmt_app
    /\ result.raised = ""
    /\ result.value.out = "info"
    /\ result.value.info.pid = call.given.pid
    /\ result.value.info.username = None

\* C21: the matcher of an accepted format either returns None or returns
\* a LogPrefixInfo whose pid is not 0 and whose timestamp is not the
\* sentinel; it never raises the "didn't capture" RuntimeError.
C21_SentinelErrorUnreachable ==
    Done("matcher") /\ call \in Prefixes \cup PidPrefixes =>
        /\ result.raised = ""
        /\ \/ result.value.out = "None"
           \/ /\ result.value.out = "info"
              /\ result.value.info.pid # default_pid
              /\ result.value.info.timestamp # default_datetime

----------------------------------------------------------------------------
(* parse_log_data_automagically: the records are framed and merged, then
   parse_postgres_lines is called on the list of them *)

Fmt_unknown_code == <<"%","t"," ","%","x">>
Fmt_without_pid == <<"%","t">>
Regex_repeated_group ==
    <<Item("bol", <<>>), Item("group", <<"pid">>), Item("char", <<" ">>),
      Item("group", <<"pid">>)>>

RunOptionChoices ==
    {ParseOptions(<<>>, <<>>), ParseOptions(Fmt_unknown_code, <<>>),
     ParseOptions(Fmt_without_pid, <<>>), ParseOptions(<<>>, Regex_repeated_group)}

InitRun ==
    /\ IdleCompile
    /\ IdleResolve
    /\ IdleIngest
    /\ IdleCalls
    /\ options \in RunOptionChoices
    /\ unmerged_lines = <<>>
    /\ last_line = None
    /\ merged_lines = <<>>
    /\ merge_error = no_error
    /\ merge_pc = "loop"

\* parse_postgres_lines(list(lines), options), after the last record was
\* merged
ParsePostgresLines ==
    /\ merge_pc = "done"
    /\ pc = "idle"
    /\ lines' = merged_lines
    /\ SetModel(parse_postgres_lines(merged_lines, options))
    /\ UNCHANGED <<extra_vars, compile_vars, options, resolve_vars, prefix_matchers,
                   last, acc_vars>>

NextRun ==
    \/ NewRecord
    \/ Continuation
    \/ OrphanContinuation
    \/ EndOfInput
    \/ ParsePostgresLines

SpecRun == InitRun /\ [][NextRun]_vars

InvalidOptions == make_prefix_matchers(options).raised # ""

\* the run is over: merging raised, or parse_postgres_lines was called
RunEnded == merge_pc = "raised" \/ pc \in {"raised", "returned"}

\* C22: with an invalid format or pattern the run fails with the
\* configuration error, before any record is framed or merged and
\* whatever the input holds.
C22_ConfigErrorBeforeIngestion ==
    InvalidOptions /\ RunEnded =>
        /\ pc = "raised"
        /\ error.type = make_prefix_matchers(options).raised
        /\ merge_error = no_error
        /\ unmerged_lines = <<>>

----------------------------------------------------------------------------
(* generate_colours and visualize *)

\* fractions are kept in millionths
Unit == 1000000

\* random.Random(): a generator whose state comes from the entropy of the
\* operating system
Random(entropy) == [seeded |-> FALSE, state |-> entropy]

\* rng.seed(a) that leaves the generator as it was
rng_seed_ignored(rng, a) == rng

\* rng.seed(a)
rng_seed(rng, a) == [seeded |-> TRUE, state |-> a]

\* rng.random(): 0.7202671550185803 is the first number after seed(12345678)
rng_random(rng) ==
    IF rng.seeded /\ rng.state = 12345678 THEN 720267 ELSE rng.state % Unit

\* "{:02X}".format(x)
format_02X(x) ==
    LET d == <<"0","1","2","3","4","5","6","7","8","9","A","B","C","D","E","F">>
    IN  <<d[(x \div 16) + 1], d[(x % 16) + 1]>>

\* int(x * 255) for each x of colorsys.hsv_to_rgb(hue, 1.0, 1.0); f is the
\* fractional part of hue * 6
rgb_of_sector(i, f) ==
    CASE i = 0 -> <<255, (f * 255) \div Unit, 0>>
      [] i = 1 -> <<((Unit - f) * 255) \div Unit, 255, 0>>
      [] i = 2 -> <<0, 255, (f * 255) \div Unit>>
      [] i = 3 -> <<0, ((Unit - f) * 255) \div Unit, 255>>
      [] i = 4 -> <<(f * 255) \div Unit, 0, 255>>
      [] i = 5 -> <<255, 0, ((Unit - f) * 255) \div Unit>>

hsv_to_rgb(hue) == rgb_of_sector(((hue * 6) \div Unit) % 6, (hue * 6) % Unit)

\* "#" + "".join(["{:02X}".format(x) for x in rgb])
colour_string(rgb) ==
    <<"#">> \o format_02X(rgb[1]) \o format_02X(rgb[2]) \o format_02X(rgb[3])

\* the loop of generate_colours
colours_from(n, offset) ==
    [k \in 1..n |-> colour_string(hsv_to_rgb((((k - 1) * Unit) \div n + offset) % Unit))]

\* generate_colours(n), called when the operating system supplies entropy
generate_colours(n, entropy) ==
    colours_from(n, rng_random(rng_seed(Random(entropy), 12345678)))

\* the code points of the characters a token of a classification key
\* stands for
code_points(tok) ==
    CASE tok.k = "select" -> <<115, 101, 108, 101, 99, 116>>
      [] tok.k = "where" -> <<119, 104, 101, 114, 101>>
      [] tok.k = "a" -> <<97>>
      [] tok.k = "b" -> <<98>>
      [] tok.k = " " -> <<32>>
      [] tok.k = "..." -> <<46, 46, 46>>

RECURSIVE str_code_points(_)
str_code_points(text) ==
    IF text = <<>> THEN <<>>
    ELSE code_points(Head(text)) \o str_code_points(Tail(text))

\* a < b for two strings given by their code points
code_points_less(a, b) ==
    \E k \in 0..Len(a) :
        /\ k <= Len(b)
        /\ \A i \in 1..k : a[i] = b[i]
        /\ \/ k = Len(a) /\ k < Len(b)
           \/ k < Len(a) /\ k < Len(b) /\ a[k + 1] < b[k + 1]

str_less(x, y) == code_points_less(str_code_points(x), str_code_points(y))

\* sorted(classes)
RECURSIVE sorted(_)
sorted(classes) ==
    IF classes = {} THEN <<>>
    ELSE LET least == CHOOSE x \in classes :
                        \A y \in classes \ {x} : str_less(x, y)
         IN  <<least>> \o sorted(classes \ {least})

\* the sort key of a process
process_less(order, p, q) ==
    IF order = "pid" THEN p.pid < q.pid
    ELSE \/ p.first_appearance < q.first_appearance
         \/ p.first_appearance = q.first_appearance /\ p.pid < q.pid

\* list.sort: x is put after the entries that are not greater
RECURSIVE insert_process(_, _, _)
insert_process(order, ps, x) ==
    IF ps = <<>> THEN <<x>>
    ELSE IF process_less(order, x, Head(ps)) THEN <<x>> \o ps
    ELSE <<Head(ps)>> \o insert_process(order, Tail(ps), x)

RECURSIVE sort_processes(_, _)
sort_processes(order, ps) ==
    IF ps = <<>> THEN <<>>
    ELSE insert_process(order, sort_processes(order, SubSeq(ps, 1, Len(ps) - 1)),
                        ps[Len(ps)])

RECURSIVE insert_statement(_, _)
insert_statement(ss, x) ==
    IF ss = <<>> THEN <<x>>
    ELSE IF x.start_time < Head(ss).start_time THEN <<x>> \o ss
    ELSE <<Head(ss)>> \o insert_statement(Tail(ss), x)

\* statements.sort(key=lambda x: x.start_time)
RECURSIVE sort_statements(_)
sort_statements(ss) ==
    IF ss = <<>> THEN <<>>
    ELSE insert_statement(sort_statements(SubSeq(ss, 1, Len(ss) - 1)), ss[Len(ss)])

\* pids[pid]: the row of the process
row_of(processes, pid) == (CHOOSE i \in 1..Len(processes) : processes[i].pid = pid) - 1

min_of(S) == CHOOSE x \in S : \A y \in S : x <= y

bar_height == 10

classes_of(statements) ==
    {classify_sql(statements[i].statement) : i \in 1..Len(statements)}

\* colours[cls] after zip(sorted(classes), generate_colours(len(classes)))
colour_of(keys, colours, cls) == colours[CHOOSE i \in 1..Len(keys) : keys[i] = cls]

\* the VizData written, from the sorted processes and statements on
VizData(m, processes, statements, min_time, keys, colours) ==
    [processes |->
        [i \in 1..Len(processes) |->
            [pid |-> processes[i].pid, y |-> (i - 1) * bar_height]],
     events |->
        [i \in 1..Len(m.events) |->
            [t_offset |-> m.events[i].time - min_time,
             pid |-> m.events[i].pid,
             cy2 |-> 2 * row_of(processes, m.events[i].pid) * bar_height
                        + bar_height]],
     statements |->
        [i \in 1..Len(statements) |->
            [t_offset |-> statements[i].start_time - min_time,
             pid |-> statements[i].pid,
             y |-> row_of(processes, statements[i].pid) * bar_height,
             class |-> classify_sql(statements[i].statement),
             colour |-> colour_of(keys, colours,
                                  classify_sql(statements[i].statement))]],
     start_time |-> min_time,
     total_height |-> Len(processes) * bar_height]

visualize_sorted(m, processes, statements, keys, entropy) ==
    IF statements = <<>> THEN Raised("ValueError")
    ELSE Returned(VizData(m, processes, statements,
                          min_of({statements[i].start_time : i \in 1..Len(statements)}
                                 \cup {m.start_time}),
                          keys, generate_colours(Len(keys), entropy)))

\* visualize(model, out, options)
visualize(m, order, entropy) ==
    visualize_sorted(m, sort_processes(order, m.processes),
                     sort_statements(m.statements),
                     sorted(classes_of(m.statements)), entropy)

\* f(x) of contrast_ratio_with_white in ten-thousandths, for
\* x = 0, ..., 255: x / 3294 if x <= 10 else (x / 269 + 0.0513) ** 2.4
linearized ==
    <<
      0, 3, 6, 9, 12, 15, 18, 21, 24, 27, 30, 33, 36, 39, 43, 47,
      51, 55, 59, 64, 69, 74, 79, 84, 90, 96, 102, 108, 115, 121, 128, 135,
      143, 150, 158, 166, 175, 183, 192, 201, 210, 220, 229, 239, 250, 260, 271, 282,
      293, 305, 316, 328, 341, 353, 366, 379, 393, 406, 420, 434, 449, 463, 478, 494,
      509, 525, 541, 558, 574, 591, 609, 626, 644, 662, 681, 699, 719, 738, 758, 778,
      798, 818, 839, 860, 882, 904, 926, 948, 971, 994, 1017, 1041, 1065, 1089, 1114, 1139,
      1164, 1190, 1216, 1242, 1269, 1296, 1323, 1350, 1378, 1407, 1435, 1464, 1493, 1523, 1553, 1583,
      1614, 1645, 1676, 1708, 1740, 1772, 1805, 1838, 1871, 1905, 1939, 1973, 2008, 2043, 2079, 2115,
      2151, 2187, 2224, 2262, 2299, 2337, 2376, 2415, 2454, 2493, 2533, 2573, 2614, 2655, 2696, 2738,
      2780, 2822, 2865, 2909, 2952, 2996, 3041, 3085, 3130, 3176, 3222, 3268, 3315, 3362, 3409, 3457,
      3505, 3554, 3603, 3652, 3702, 3752, 3803, 3854, 3905, 3957, 4009, 4061, 4114, 4168, 4221, 4276,
      4330, 4385, 4440, 4496, 4552, 4609, 4666, 4723, 4781, 4839, 4898, 4957, 5017, 5076, 5137, 5197,
      5259, 5320, 5382, 5444, 5507, 5570, 5634, 5698, 5763, 5827, 5893, 5958, 6025, 6091, 6158, 6226,
      6294, 6362, 6431, 6500, 6569, 6640, 6710, 6781, 6852, 6924, 6996, 7069, 7142, 7216, 7290, 7364,
      7439, 7514, 7590, 7666, 7743, 7820, 7897, 7975, 8054, 8132, 8212, 8292, 8372, 8452, 8533, 8615,
      8697, 8780, 8862, 8946, 9030, 9114, 9199, 9284, 9370, 9456, 9542, 9629, 9717, 9805, 9893, 9982>>

\* relative_luminosity(r, g, b), in ten-thousandths
relative_luminosity(rgb) ==
    (2126 * linearized[rgb[1] + 1] + 7152 * linearized[rgb[2] + 1]
        + 722 * linearized[rgb[3] + 1]) \div 10000

\* contrast_ratio_with_white(rgb) > 1.5, that is
\* 1 / (relative_luminosity + 0.05) > 3 / 2
sufficient_contrast_with_white(rgb) ==
    3 * (relative_luminosity(rgb) + 500) < 2 * 10000

\* the generator after rng.seed(s) for a key: the numbers it returns, the
\* first ones listed and the later ones all alike
seeded_from_key(given) == [seeded |-> TRUE, state |-> given]

\* the k-th number rng.random() returns
nth_random(rng, k) ==
    IF k <= Len(rng.state.first) THEN rng.state.first[k] ELSE rng.state.rest

\* hash_as_colour(s)
hash_as_colour(rng) == colour_string(hsv_to_rgb(nth_random(rng, 1)))

MaxVizLines == 3    \* most records in an input that is visualized
MaxColours == 4     \* most colours asked of generate_colours

select_a_where_b ==
    <<sp, SqlWord("select"), sp, SqlWord("a"), sp, SqlWord("where"), sp, SqlWord("b")>>
SELECT_A_WHERE_a ==
    <<sp, SqlWord("SELECT"), sp, sp, SqlWord("A"), sp, SqlWord("WHERE"), sp, SqlWord("a")>>
select_b == <<sp, SqlWord("select"), sp, SqlWord("b")>>

VizLines ==
    {LogLine(None, prefix_old(2, 1, 1)
                     \o <<Mark(M_duration), Dec3(3), sp, ms_unit, sp, sp, statement_label>>
                     \o select_b),
     LogLine(None, prefix_old(1, 2, 2)
                     \o <<Mark(M_duration), Dec3(0), sp, ms_unit, sp, sp, statement_label>>
                     \o SELECT_A_WHERE_a),
     LogLine(None, prefix_old(2, 2, 3)
                     \o <<Mark(M_duration), Dec3(1), sp, ms_unit, sp, sp, statement_label>>
                     \o select_a_where_b),
     LogLine(None, prefix_old(1, 1, 4) \o <<Mark(M_duration), Dec3(0), sp, ms_unit>>),
     LogLine(None, prefix_old(1, 3, 5) \o <<Mark(M_disconnection), Word(6)>>),
     LogLine(None, prefix_old(2, 1, 6)
                     \o <<Mark(M_holding_lock), Digits(4), wait_queue_sep,
                          Digits(1), Ch(","), sp, Digits(5), Ch(".")>>)}

VizInputs == UNION {[1..n -> VizLines] : n \in 0..MaxVizLines}

\* the Models parse_postgres_lines returns for these inputs
VizModels ==
    {r.value : r \in {x \in {parse_postgres_lines(ls, ParseOptions(<<>>, <<>>)) :
                                ls \in VizInputs} : x.raised = ""}}

Entropies == {1, 500000}

VizCalls ==
    {Call("visualize", [order |-> o, entropy |-> e], m) :
        o \in {"pid", "time"}, e \in Entropies, m \in VizModels}

\* hues of red, yellow, green and blue
Hues == {0, 166667, 333333, 666667}

MaxListed == 2      \* most numbers listed one by one for a seeded generator

candidate_limit == 100

HashCalls ==
    {Call("hash_as_colour", [first |-> d, rest |-> h], [key |-> <<>>]) :
        d \in UNION {[1..n -> Hues] : n \in 1..MaxListed}, h \in Hues}

ColourCalls ==
    {Call("generate_colours", [entropy |-> e], [n |-> n]) :
        e \in Entropies, n \in 0..MaxColours}

InitViz ==
    /\ IdleCompile
    /\ IdleResolve
    /\ IdleIngest
    /\ IdleMerge
    /\ options = ParseOptions(<<>>, <<>>)
    /\ call \in VizCalls \cup ColourCalls \cup HashCalls
    /\ result = Returned(<<>>)
    /\ call_pc = "call"

GenerateColours ==
    /\ call_pc = "call"
    /\ call.fn = "generate_colours"
    /\ result' = Returned(generate_colours(call.arg.n, call.given.entropy))
    /\ call_pc' = "done"
    /\ UNCHANGED call
    /\ CallsIdle

Visualize ==
    /\ call_pc = "call"
    /\ call.fn = "visualize"
    /\ result' = visualize(call.arg, call.given.order, call.given.entropy)
    /\ call_pc' = "done"
    /\ UNCHANGED call
    /\ CallsIdle

HashAsColour ==
    /\ call_pc = "call"
    /\ call.fn = "hash_as_colour"
    /\ result' = Returned(hash_as_colour(seeded_from_key(call.given)))
    /\ call_pc' = "done"
    /\ UNCHANGED call
    /\ CallsIdle

NextViz == GenerateColours \/ Visualize \/ HashAsColour

SpecViz == InitViz /\ [][NextViz]_vars

\* C23: generate_colours(n) returns the same n colour strings whatever the
\* generator was created from; visualize gives the i-th of them to the
\* i-th classification key in sorted order, so statements of one key share
\* one colour and one Model always gets the same colours.
C23_ColoursDeterministic ==
    /\ Done("generate_colours") =>
        /\ Len(result.value) = call.arg.n
        /\ \A e \in Entropies : result.value = generate_colours(call.arg.n, e)
        /\ \A k \in 1..call.arg.n : Len(result.value[k]) = 7
    /\ Done("visualize") /\ result.raised = "" =>
        LET sts == result.value.statements
            keys == sorted({sts[i].class : i \in 1..Len(sts)})
        IN  /\ \A i \in 1..Len(keys) : \A j \in 1..Len(keys) :
                    i < j => str_less(keys[i], keys[j])
            /\ \A i \in 1..Len(sts) : \A k \in 1..Len(keys) :
                    sts[i].class = keys[k]
                        => sts[i].colour = colours_from(Len(keys), 720267)[k]
            /\ \A i, j \in 1..Len(sts) :
                    sts[i].class = sts[j].class => sts[i].colour = sts[j].colour
            /\ \A e \in Entropies :
                    result = visualize(call.arg, call.given.order, e)

\* a report with two statements of one key and one of another key
C23_Witness ==
    /\ Done("visualize")
    /\ result.raised = ""
    /\ Len(result.value.statements) = 3
    /\ \E i, j, k \in 1..3 :
        /\ i # j
        /\ result.value.statements[i].class = result.value.statements[j].class
        /\ result.value.statements[i].class # result.value.statements[k].class

\* the candidates of a key: the colours of the first candidate_limit
\* numbers of its generator
candidate(k) == hsv_to_rgb(nth_random(seeded_from_key(call.given), k))

sufficient_candidates ==
    {k \in 1..candidate_limit : sufficient_contrast_with_white(candidate(k))}

\* C24: the colour of a key is that of the first candidate with contrast
\* ratio with white above 1.5 among the first 100, and that of the 100th
\* when there is none.
C24_FirstSufficientCandidate ==
    Done("hash_as_colour") =>
        result.value =
            colour_string(candidate(IF sufficient_candidates = {}
                                        THEN candidate_limit
                                        ELSE min_of(sufficient_candidates)))

\* the first physical line of a payload, trimmed
trimmed_first_line(core) ==
    IF core = <<>> THEN <<>> ELSE strip(get_first_line(core).value)

\* C25: the description of an analyze or vacuum Event is the trimmed first
\* physical line of the payload; no continuation text appears in it.
C25_DescriptionIsFirstLine ==
    (pc = "loop" /\ last.key \in {M_analyze, M_vacuum}) =>
        /\ events[Len(events)].description = Some(trimmed_first_line(last.core))
        /\ ~contains(events[Len(events)].description[1], "\n")

\* the pids of queue other than pid, in order
RECURSIVE others(_, _)
others(queue, pid) ==
    IF queue = <<>> THEN <<>>
    ELSE IF Head(queue) = pid THEN others(Tail(queue), pid)
    ELSE <<Head(queue)>> \o others(Tail(queue), pid)

\* the lock-wait Event just added and the payload it was decoded from
lock_event == events[Len(events)]
lock_entry == parse_holding_lock_log_line(last.core).value

\* C26: a lock-wait Event has the decoded holder as its only primary
\* related pid and the decoded wait queue, in order and without the
\* record's own pid, as its secondary related pids; the holder and every
\* pid of the queue have a Process.
C26_LockWaitRelatedPids ==
    (pc = "loop" /\ last.key = M_holding_lock) =>
        /\ lock_event.event_type = "waiting for lock"
        /\ lock_event.primary_related_pids = <<lock_entry.holding_lock_pid>>
        /\ lock_event.secondary_related_pids
                = others(lock_entry.wait_queue_pid, lock_event.pid)
        /\ \A i \in 1..Len(lock_event.secondary_related_pids) :
                lock_event.secondary_related_pids[i] # lock_event.pid
        /\ \A pid \in {lock_entry.holding_lock_pid} \cup Range(lock_entry.wait_queue_pid) :
                key_index(pids_by_first_seen, pid) # 0

\* the record's own pid stood twice in the wait queue and another pid is left
C26_Witness ==
    /\ pc = "loop"
    /\ last.key = M_holding_lock
    /\ Len(lock_entry.wait_queue_pid) = 3
    /\ Len(lock_event.secondary_related_pids) = 1

\* C27: each JSON record gives one LogLine with the record's timestamp
\* whose text is the payload before its first carriage return; nothing
\* from the carriage return on is kept.
C27_TrailerStripped ==
    Done("ingest_logs_google_json") =>
        /\ Len(result.value) = Len(call.given)
        /\ \A i \in 1..Len(call.given) :
            /\ result.value[i].timestamp = Some(call.given[i].t)
            /\ result.value[i].line = call.given[i].before

\* C28: a literal character of a format compiles, and where it stands the
\* matcher accepts that one character and nothing else.
C28_LiteralMatchedLiterally ==
    Done("matcher") /\ call \in LiteralPrefixes =>
        /\ result.raised = ""
        /\ result.value.out = "info" <=> call.given.written = <<call.given.ch>>

\* the prefix and the payload of the record read last, decoded
last_resolved == parse_log_prefix(last.prefix, prefix_matchers)
last_duration == parse_duration_log_line(last.core)
last_timestamp ==
    IF lines[Len(lines)].timestamp # None THEN lines[Len(lines)].timestamp[1]
    ELSE last_resolved.info.timestamp

\* C29: a duration record whose prefix is resolved by a matcher and whose
\* first payload line is well-formed gives a Statement that ends at the
\* record's context timestamp and starts the decoded duration earlier,
\* whether or not the prefix has a log-line number; it is never an error.
C29_DurationRecordGivesStatement ==
    (/\ pc \in {"loop", "raised"}
     /\ Len(lines) > 0
     /\ last.key = M_duration
     /\ last_resolved.out = "info"
     /\ last_duration.raised = "") =>
        /\ pc = "loop"
        /\ \E s \in Range(flatten(stmts_by_process)) :
            /\ s.pid = last_resolved.info.pid
            /\ s.end_time = last_timestamp
            /\ s.start_time = last_timestamp - last_duration.value.duration_usec

\* the rows of the report, a row being the y of a process
rows_of(report) == {report.processes[i].y : i \in 1..Len(report.processes)}

\* the processes of the report are in the order asked for
rows_ordered(report, m, order) ==
    \A i, j \in 1..Len(report.processes) :
        i < j =>
            LET p == CHOOSE x \in Range(m.processes) : x.pid = report.processes[i].pid
                q == CHOOSE x \in Range(m.processes) : x.pid = report.processes[j].pid
            IN  IF order = "pid" THEN p.pid < q.pid
                ELSE \/ p.first_appearance < q.first_appearance
                     \/ p.first_appearance = q.first_appearance /\ p.pid < q.pid

\* C30: visualize writes a report for every Model parse_postgres_lines
\* returns, one without statements included; every process has a row of
\* its own, the rows are ordered by (first_appearance, pid) or by pid, and
\* every event and statement has a time offset >= 0.
C30_VisualizeCompletes ==
    Done("visualize") =>
        /\ result.raised = ""
        /\ Len(result.value.processes) = Len(call.arg.processes)
        /\ Cardinality(rows_of(result.value)) = Len(call.arg.processes)
        /\ {result.value.processes[i].pid : i \in 1..Len(result.value.processes)}
                = {p.pid : p \in Range(call.arg.processes)}
        /\ rows_ordered(result.value, call.arg, call.given.order)
        /\ \A i \in 1..Len(result.value.events) : result.value.events[i].t_offset >= 0
        /\ \A i \in 1..Len(result.value.statements) :
                result.value.statements[i].t_offset >= 0

====
